---- MODULE Spec2Model ----
(***************************************************************************)
(* State-machine model of the SMS platform's device adapters and bridges:  *)
(*   - WebUSBSMS, the USB-modem adapter (AT-command protocol over WebUSB)  *)
(*   - the polling bridge app's message queue (SMSBridgeApp.tsx)           *)
(*   - SMSService.splitLongMessage and the native multipart send           *)
(*   - the WebSocket bridge (handleSendSMSRequest over NetworkService)     *)
(* Each subsystem has its own next-state relation and specification; the   *)
(* variables of the other subsystems are left unchanged by it.             *)
(***************************************************************************)
EXTENDS Integers, Sequences, FiniteSets, TLC

VARIABLES
    \* ---- WebUSBSMS ----
    status,         \* this.status
    device,         \* this.device # null
    devState,       \* the physical USBDevice: "closed" | "opened" | "claimed"
    messageQueue,   \* this.messageQueue
    sendPc,         \* position of each sendSMS call
    sendStep,       \* index of the AT command the call is at
    written,        \* commands the call has written, in order
    reads,          \* responses the call has read
    connPc,         \* position of connectDevice
    connStep,       \* index of the initializeDevice command
    statPc,         \* position of getStatus
    statStep,       \* index of the getStatus command
    discPc,         \* position of disconnect
    \* ---- polling bridge (SMSBridgeApp.tsx, React state) ----
    appQueue,       \* messageQueue: the list of {id, status} entries
    appPc,          \* position of each sendSMS(message) call of the app
    appMsg,         \* id of the message the call is sending
    \* ---- SMSService.splitLongMessage ----
    splitMessage,   \* the message argument, a sequence of characters
    splitMax,       \* the maxLength argument
    splitParts,     \* the returned parts
    splitPc,        \* "input" before the call, "done" after it
    \* ---- SMSManagerModule.sendSMS (native) under SMSService.sendSMS ----
    natParts,       \* number of parts handed to the radio (0: none yet)
    partResult,     \* result code of each part's SMS_SENT broadcast
    smsResult,      \* what SMSService.sendSMS returned: success or failure
    \* ---- WebSocket bridge: NetworkService and handleSendSMSRequest ----
    sock,           \* each WebSocket created by connect(): its readyState
    nsSocket,       \* this.socket: the socket's index, 0 for null
    isConnected,    \* this.isConnected
    reconnectTimeout, \* this.reconnectTimeout # null
    reconnectTimers, \* number of 5 s reconnect timers armed and not yet fired
    connectPromise, \* per socket: who awaits connect()'s pending promise
    connectTimer,   \* per socket: the 10 s connection timeout is pending
    nsConfigured,   \* this.serverUrl and this.deviceInfo are set
    handlers,       \* the 'send-sms' handler is registered
    heartbeatInterval, \* this.heartbeatInterval # null
    hbLeaked,       \* some heartbeat interval is live and no longer referenced
    nsDisconnected, \* disconnect() was called and connect() has not been called since
    reqPc,          \* position of handleSendSMSRequest for each request
    reqResult,      \* outcome of the local send of each request
    reports,        \* report types passed to networkService.send
    delivered,      \* report types written to an open socket
    \* ---- SMSService.sendSMS (validation and native call) ----
    svcPc,          \* position of the call: "idle" | "native" | "returned"
    svcPlatform,    \* Platform.OS of the call
    svcPhone,       \* the phoneNumber argument
    svcMessage,     \* the message argument
    svcResult,      \* the returned SMSResult: [success, error]
    svcNativeArgs,  \* arguments of each nativeModule.sendSMS call of the call
    \* ---- device registration (bridge apps and the Device Registry) ----
    deviceStatus,   \* per phone: the deviceStatus React state is loaded
    registry,       \* the registry: identity -> physical phones registered under it
    registeredAs,   \* per phone: the identities it has registered with
    \* ---- Message Queue, Dispatcher, Campaign Runner, Device Registry ----
    campState,      \* per campaign: none | scheduled | running | paused | completed | cancelled
    recipients,     \* per campaign: number of recipients
    interval,       \* per campaign: ticks between two emissions (60 / rate)
    emitted,        \* per campaign: number of messages emitted so far
    sinceEmit,      \* per campaign: ticks since the last emission (or the start)
    elapsed,        \* per campaign: ticks from the start to the last emission
    msgs,           \* message id -> [state, attempt_count]
    cqueue,         \* per campaign: its queued message ids, oldest first
    rrPointer,      \* campaign of the last draw (round-robin pointer)
    devHealth,      \* per device: online | offline
    holding,        \* per device: the messages assigned to it
    failuresLeft,   \* failed sends the run may still contain
    \* ---- CampaignBuilder (campaign form and createCampaign) ----
    campaign,       \* the form: [name, message, contacts, startTime]
    cbError,        \* the error shown, "" for none
    isLoading,      \* TRUE while a POST /api/campaigns awaits its response
    cbRequest,      \* body of the request sent last, NoRequest before the first
    cbSent,         \* requests sent so far
    cbCalls,        \* flips at every call of createCampaign
    \* ---- DeviceDashboard (device list and test SMS dialog) ----
    dashDevices,    \* devices: status of each listed device, "absent" if not listed
    loading,        \* the first fetchDevices has not settled
    dashError,      \* error of a failed fetchDevices is shown
    selectedDevice, \* id of the device of the open test dialog, 0 for null
    testSMS,        \* [phone, message]: whether each input is filled
    tsTarget,       \* device id of the test-SMS request sent last, 0 before the first
    tsSent,         \* test-SMS requests sent so far
    \* ---- DeviceStatusService (status cache) ----
    dsNow,          \* the clock, in ms
    lastUpdate,     \* this.lastUpdate, in ms (0 is new Date(0))
    cachedStatus,   \* this.cachedStatus: number of the query it came from, 0 for null
    updateInterval, \* this.updateInterval, in ms
    dsPc,           \* position of each getDeviceStatus call
    dsStart,        \* now of the call (line 21)
    dsQuery,        \* number of the device query the call awaits, 0 for none
    dsResult,       \* the status the call returned: number of its query, 0 for none
    dsQueries,      \* device queries begun so far
    dsClearMark,    \* queries begun when clearCache was last called, -1 once a call has started since
    dsMark,         \* for the first call started after a clearCache: queries begun before the clear
    appConnected,     \* SMSBridgeApp: the isConnected state of the latest render
    appStarted,       \* initializeApp has reached its connectToServer() call
    connectCalls,     \* connectToServer calls awaiting the register fetch, by the isConnected of their closure
    retryTimers,      \* armed setTimeout(connectToServer, 30000), by the isConnected of their closure
    pollIntervals,    \* live setInterval timers of startMessagePolling, by the isConnected of their closure
    pollFetches,      \* message fetches made by poll ticks
    connectStarted,   \* connectToServer calls made other than by a retry timer
    linkRetried,      \* some retry timer has fired
    appIsLoading,     \* SMSBridgeApp: the isLoading state
    lsPlatform,       \* sendLongSMS: Platform.OS of the SMSService
    lsPhone,          \* sendLongSMS: the phoneNumber argument
    lsMessage,        \* sendLongSMS: the message argument
    lsParts,          \* sendLongSMS: parts
    lsI,              \* sendLongSMS: the loop index i
    lsPc,             \* sendLongSMS: "idle" | "call" | "native" | "delay" | "done"
    lsHanded,         \* strings handed to nativeModule.sendSMS, each with the index of its part
    lsResults,        \* sendLongSMS: results, each with the index of the part it was pushed for
    deviceList,       \* DeviceDashboard: the devices state as the list it is
    dlEvent,          \* the last WebSocket event handled on the list
    dlBefore,         \* the devices state before that event
    logs,             \* bridge app: the logs state, each entry named by the number of its addLog call
    logCalls,         \* addLog calls made
    logDropped        \* the last call on the log was an addLog that dropped an entry

usbVars == <<status, device, devState, messageQueue, sendPc, sendStep, written,
             reads, connPc, connStep, statPc, statStep, discPc>>

pollVars == <<appQueue, appPc, appMsg>>

splitVars == <<splitMessage, splitMax, splitParts, splitPc>>

nativeVars == <<natParts, partResult, smsResult>>

wsVars == <<sock, nsSocket, isConnected, reconnectTimeout, reconnectTimers, connectPromise,
            connectTimer, nsConfigured, handlers, heartbeatInterval, hbLeaked,
            nsDisconnected, reqPc, reqResult, reports, delivered>>

svcVars == <<svcPc, svcPlatform, svcPhone, svcMessage, svcResult, svcNativeArgs>>

regVars == <<deviceStatus, registry, registeredAs>>

dispVars == <<campState, recipients, interval, emitted, sinceEmit, elapsed, msgs,
              cqueue, rrPointer, devHealth, holding, failuresLeft>>

cbVars == <<campaign, cbError, isLoading, cbRequest, cbSent, cbCalls>>

dashVars == <<dashDevices, loading, dashError, selectedDevice, testSMS, tsTarget, tsSent>>

dssVars == <<dsNow, lastUpdate, cachedStatus, updateInterval, dsPc, dsStart, dsQuery,
             dsResult, dsQueries, dsClearMark, dsMark>>

linkVars == <<appConnected, appStarted, connectCalls, retryTimers, pollIntervals,
             pollFetches, connectStarted, linkRetried, appIsLoading>>

longVars == <<lsPlatform, lsPhone, lsMessage, lsParts, lsI, lsPc, lsHanded, lsResults>>

devListVars == <<deviceList, dlEvent, dlBefore>>

logVars == <<logs, logCalls, logDropped>>

vars == <<usbVars, pollVars, splitVars, nativeVars, wsVars, svcVars, regVars, dispVars,
          cbVars,
          dashVars,
          dssVars,
          linkVars,
          longVars,
          devListVars,
          logVars>>

nonUsbVars == <<pollVars, splitVars, nativeVars, wsVars, svcVars, regVars, dispVars, cbVars,
    dashVars,
    dssVars,
    linkVars,
    longVars,
    devListVars,
    logVars>>

nonPollVars == <<usbVars, splitVars, nativeVars, wsVars, svcVars, regVars, dispVars, cbVars,
    dashVars,
    dssVars,
    linkVars,
    longVars,
    devListVars,
    logVars>>

nonSplitVars == <<usbVars, pollVars, nativeVars, wsVars, svcVars, regVars, dispVars, cbVars,
    dashVars,
    dssVars,
    linkVars,
    longVars,
    devListVars,
    logVars>>

nonNativeVars == <<usbVars, pollVars, splitVars, wsVars, svcVars, regVars, dispVars, cbVars,
    dashVars,
    dssVars,
    linkVars,
    longVars,
    devListVars,
    logVars>>

nonWsVars == <<usbVars, pollVars, splitVars, nativeVars, svcVars, regVars, dispVars, cbVars,
    dashVars,
    dssVars,
    linkVars,
    longVars,
    devListVars,
    logVars>>

nonSvcVars == <<usbVars, pollVars, splitVars, nativeVars, wsVars, regVars, dispVars, cbVars,
    dashVars,
    dssVars,
    linkVars,
    longVars,
    devListVars,
    logVars>>

nonRegVars == <<usbVars, pollVars, splitVars, nativeVars, wsVars, svcVars, dispVars, cbVars,
    dashVars,
    dssVars,
    linkVars,
    longVars,
    devListVars,
    logVars>>

nonDispVars == <<usbVars, pollVars, splitVars, nativeVars, wsVars, svcVars, regVars, cbVars,
    dashVars,
    dssVars,
    linkVars,
    longVars,
    devListVars,
    logVars>>

nonCbVars == <<usbVars, pollVars, splitVars, nativeVars, wsVars, svcVars, regVars, dispVars,
    dashVars,
    dssVars,
    linkVars,
    longVars,
    devListVars,
    logVars>>

nonDashVars == <<usbVars, pollVars, splitVars, nativeVars, wsVars, svcVars, regVars, dispVars, cbVars,
    dssVars,
    linkVars,
    longVars,
    devListVars,
    logVars>>

nonDssVars == <<usbVars, pollVars, splitVars, nativeVars, wsVars, svcVars, regVars, dispVars, cbVars, dashVars,
    linkVars,
    longVars,
    devListVars,
    logVars>>

nonLinkVars == <<usbVars, pollVars, splitVars, nativeVars, wsVars, svcVars, regVars, dispVars, cbVars, dashVars, dssVars,
    longVars,
    devListVars,
    logVars>>

nonLongVars == <<usbVars, pollVars, splitVars, nativeVars, wsVars, svcVars, regVars, dispVars, cbVars, dashVars, dssVars, linkVars,
    devListVars,
    logVars>>

nonDevListVars == <<usbVars, pollVars, splitVars, nativeVars, wsVars, svcVars, regVars, dispVars, cbVars, dashVars, dssVars, linkVars, longVars,
    logVars>>

nonLogVars == <<usbVars, pollVars, splitVars, nativeVars, wsVars, svcVars, regVars, dispVars, cbVars, dashVars, dssVars, linkVars, longVars, devListVars>>

(***************************************************************************)
(* WebUSBSMS                                                               *)
(***************************************************************************)

\* Number of sendSMS calls that may be in progress at once.
NumSends == 2

Senders == 1..NumSends

\* The Device's concurrency limit of the data model; WebUSBSMS declares none.
ConcurrencyLimit == 1

\* sendSMS: AT, AT+CMGF=1, AT+CMGS="<to>", <message>^Z
SendCommands == <<"AT", "AT+CMGF=1", "AT+CMGS", "BODY^Z">>

\* initializeDevice: ATZ, ATE0, AT+CMGF=1, AT+CNMI=1,2,0,1,0
InitCommands == <<"ATZ", "ATE0", "AT+CMGF=1", "AT+CNMI">>

\* getStatus: AT+CSQ, AT+CBC, AT+CPIN?
StatusCommands == <<"AT+CSQ", "AT+CBC", "AT+CPIN?">>

InitUsb ==
    /\ status = "offline"
    /\ device = FALSE
    /\ devState = "closed"
    /\ messageQueue = 0
    /\ sendPc = [c \in Senders |-> "idle"]
    /\ sendStep = [c \in Senders |-> 0]
    /\ written = [c \in Senders |-> <<>>]
    /\ reads = [c \in Senders |-> 0]
    /\ connPc = "idle"
    /\ connStep = 0
    /\ statPc = "idle"
    /\ statStep = 0
    /\ discPc = "idle"

\* A transfer can complete successfully only on an opened device with the
\* interface claimed; otherwise the WebUSB call rejects.
TransferCanSucceed == devState = "claimed"

-----------------------------------------------------------------------------
\* Mutant of sendSMSCatch: the error of a command is swallowed and the call
\* goes on to write its next command.
sendSMSCatchSwallowed(c) ==
    IF sendStep[c] < Len(SendCommands)
    THEN /\ sendStep' = [sendStep EXCEPT ![c] = sendStep[c] + 1]
         /\ written' = [written EXCEPT ![c] = Append(written[c], SendCommands[sendStep[c] + 1])]
         /\ sendPc' = [sendPc EXCEPT ![c] = "out"]
         /\ UNCHANGED <<status, messageQueue, reads>>
    ELSE /\ status' = "error"
         /\ messageQueue' = messageQueue - 1
         /\ sendPc' = [sendPc EXCEPT ![c] = "failed"]
         /\ UNCHANGED <<sendStep, written, reads>>

\* sendSMS, catch block (lines 109-113): status = 'error'; messageQueue--; throw
sendSMSCatch(c) ==
    /\ status' = "error"
    /\ messageQueue' = messageQueue - 1
    /\ sendPc' = [sendPc EXCEPT ![c] = "failed"]
    /\ UNCHANGED <<sendStep, written, reads>>

\* Mutant of sendSMSComplete: the success tail does not decrement
\* messageQueue.
sendSMSCompleteKeepsCount(c) ==
    /\ status' = "online"
    /\ UNCHANGED messageQueue
    /\ sendPc' = [sendPc EXCEPT ![c] = "sent"]
    /\ UNCHANGED <<sendStep, written>>

\* sendSMS, success tail (lines 100-107): status = 'online'; messageQueue--
sendSMSComplete(c) ==
    /\ status' = "online"
    /\ messageQueue' = messageQueue - 1
    /\ sendPc' = [sendPc EXCEPT ![c] = "sent"]
    /\ UNCHANGED <<sendStep, written>>

\* sendATCommand entry for the call's next command (lines 170-181): the device
\* check, then transferOut is issued.
sendSMSNextCommand(c) ==
    IF device
    THEN /\ sendStep' = [sendStep EXCEPT ![c] = sendStep[c] + 1]
         /\ written' = [written EXCEPT ![c] = Append(written[c], SendCommands[sendStep[c] + 1])]
         /\ sendPc' = [sendPc EXCEPT ![c] = "out"]
         /\ UNCHANGED <<status, messageQueue>>
    ELSE /\ status' = "error"
         /\ messageQueue' = messageQueue - 1
         /\ sendPc' = [sendPc EXCEPT ![c] = "failed"]
         /\ UNCHANGED <<sendStep, written>>

\* sendSMS is called (lines 77-95): the connected check, status = 'busy',
\* messageQueue++, and the first command is written.
sendSMS(c) ==
    /\ sendPc[c] \in {"idle", "sent", "failed", "rejected"}
    /\ IF ~device
       THEN /\ sendPc' = [sendPc EXCEPT ![c] = "rejected"]
            /\ sendStep' = [sendStep EXCEPT ![c] = 0]
            /\ written' = [written EXCEPT ![c] = <<>>]
            /\ reads' = [reads EXCEPT ![c] = 0]
            /\ UNCHANGED <<status, messageQueue>>
       ELSE /\ status' = "busy"
            /\ messageQueue' = messageQueue + 1
            /\ sendPc' = [sendPc EXCEPT ![c] = "out"]
            /\ sendStep' = [sendStep EXCEPT ![c] = 1]
            /\ written' = [written EXCEPT ![c] = <<SendCommands[1]>>]
            /\ reads' = [reads EXCEPT ![c] = 0]
    /\ UNCHANGED <<device, devState, connPc, connStep, statPc, statStep, discPc>>
    /\ UNCHANGED nonUsbVars

\* transferOut resolves; transferIn is issued on this.device (lines 181-184)
SendTransferOutResolve(c) ==
    /\ sendPc[c] = "out"
    /\ TransferCanSucceed
    /\ IF device
       THEN /\ sendPc' = [sendPc EXCEPT ![c] = "in"]
            /\ UNCHANGED <<status, messageQueue, sendStep, written>>
       ELSE sendSMSCatch(c)
    /\ UNCHANGED <<reads, device, devState, connPc, connStep, statPc, statStep, discPc>>
    /\ UNCHANGED nonUsbVars

\* transferOut rejects (lines 192-194, then 109-113)
SendTransferOutReject(c) ==
    /\ sendPc[c] = "out"
    /\ sendSMSCatch(c)
    /\ UNCHANGED <<device, devState, connPc, connStep, statPc, statStep, discPc>>
    /\ UNCHANGED nonUsbVars

\* transferIn resolves: the response is returned and sendSMS goes on to its
\* next command, or finishes after the fourth (lines 184-191, 95-107)
SendTransferInResolve(c) ==
    /\ sendPc[c] = "in"
    /\ TransferCanSucceed
    /\ reads' = [reads EXCEPT ![c] = reads[c] + 1]
    /\ IF sendStep[c] < Len(SendCommands)
       THEN sendSMSNextCommand(c)
       ELSE sendSMSComplete(c)
    /\ UNCHANGED <<device, devState, connPc, connStep, statPc, statStep, discPc>>
    /\ UNCHANGED nonUsbVars

\* transferIn rejects (lines 192-194, then 109-113)
SendTransferInReject(c) ==
    /\ sendPc[c] = "in"
    /\ sendSMSCatch(c)
    /\ UNCHANGED <<device, devState, connPc, connStep, statPc, statStep, discPc>>
    /\ UNCHANGED nonUsbVars

-----------------------------------------------------------------------------
\* connectDevice, catch block (lines 70-74): status = 'error'; return false
connectDeviceCatch ==
    /\ status' = "error"
    /\ connPc' = "false"
    /\ UNCHANGED connStep

\* connectDevice is called (lines 30-38): without navigator.usb it fails at
\* once, otherwise requestDevice is awaited.
connectDevice ==
    /\ connPc \in {"idle", "true", "false"}
    /\ \/ /\ connPc' = "request"
          /\ connStep' = 0
          /\ UNCHANGED status
       \/ connectDeviceCatch
    /\ UNCHANGED <<device, devState, messageQueue, sendPc, sendStep, written, reads,
                   statPc, statStep, discPc>>
    /\ UNCHANGED nonUsbVars

\* requestDevice resolves: this.device is set and open() is awaited (38-53)
RequestDeviceResolve ==
    /\ connPc = "request"
    /\ device' = TRUE
    /\ connPc' = "open"
    /\ UNCHANGED <<status, devState, messageQueue, sendPc, sendStep, written, reads,
                   connStep, statPc, statStep, discPc>>
    /\ UNCHANGED nonUsbVars

\* requestDevice rejects (no device chosen)
RequestDeviceReject ==
    /\ connPc = "request"
    /\ connectDeviceCatch
    /\ UNCHANGED <<device, devState, messageQueue, sendPc, sendStep, written, reads,
                   statPc, statStep, discPc>>
    /\ UNCHANGED nonUsbVars

\* open() resolves; selectConfiguration(1) or claimInterface(0) is awaited
\* next, on this.device (lines 53-61)
OpenResolve ==
    /\ connPc = "open"
    /\ devState' = IF devState = "closed" THEN "opened" ELSE devState
    /\ IF device
       THEN /\ connPc' \in {"config", "claim"}
            /\ UNCHANGED <<status, connStep>>
       ELSE connectDeviceCatch
    /\ UNCHANGED <<device, messageQueue, sendPc, sendStep, written, reads,
                   statPc, statStep, discPc>>
    /\ UNCHANGED nonUsbVars

OpenReject ==
    /\ connPc = "open"
    /\ connectDeviceCatch
    /\ UNCHANGED <<device, devState, messageQueue, sendPc, sendStep, written, reads,
                   statPc, statStep, discPc>>
    /\ UNCHANGED nonUsbVars

\* selectConfiguration(1) resolves; claimInterface(0) is awaited (57-61)
SelectConfigurationResolve ==
    /\ connPc = "config"
    /\ devState # "closed"
    /\ IF device
       THEN /\ connPc' = "claim"
            /\ UNCHANGED <<status, connStep>>
       ELSE connectDeviceCatch
    /\ UNCHANGED <<device, devState, messageQueue, sendPc, sendStep, written, reads,
                   statPc, statStep, discPc>>
    /\ UNCHANGED nonUsbVars

SelectConfigurationReject ==
    /\ connPc = "config"
    /\ connectDeviceCatch
    /\ UNCHANGED <<device, devState, messageQueue, sendPc, sendStep, written, reads,
                   statPc, statStep, discPc>>
    /\ UNCHANGED nonUsbVars

\* claimInterface(0) resolves: status = 'online', then initializeDevice writes
\* its first command (lines 61-67, 157-160, 170-181)
ClaimInterfaceResolve ==
    /\ connPc = "claim"
    /\ devState # "closed"
    /\ devState' = "claimed"
    /\ IF device
       THEN /\ status' = "online"
            /\ connPc' = "out"
            /\ connStep' = 1
       ELSE connectDeviceCatch
    /\ UNCHANGED <<device, messageQueue, sendPc, sendStep, written, reads,
                   statPc, statStep, discPc>>
    /\ UNCHANGED nonUsbVars

ClaimInterfaceReject ==
    /\ connPc = "claim"
    /\ connectDeviceCatch
    /\ UNCHANGED <<device, devState, messageQueue, sendPc, sendStep, written, reads,
                   statPc, statStep, discPc>>
    /\ UNCHANGED nonUsbVars

\* initializeDevice: transferOut of the current command resolves
InitTransferOutResolve ==
    /\ connPc = "out"
    /\ TransferCanSucceed
    /\ IF device
       THEN /\ connPc' = "in"
            /\ UNCHANGED <<status, connStep>>
       ELSE connectDeviceCatch
    /\ UNCHANGED <<device, devState, messageQueue, sendPc, sendStep, written, reads,
                   statPc, statStep, discPc>>
    /\ UNCHANGED nonUsbVars

InitTransferOutReject ==
    /\ connPc = "out"
    /\ connectDeviceCatch
    /\ UNCHANGED <<device, devState, messageQueue, sendPc, sendStep, written, reads,
                   statPc, statStep, discPc>>
    /\ UNCHANGED nonUsbVars

\* initializeDevice: transferIn resolves; the next command is written, or
\* connectDevice returns true after the fourth (lines 160-163, 69)
InitTransferInResolve ==
    /\ connPc = "in"
    /\ TransferCanSucceed
    /\ IF connStep < Len(InitCommands)
       THEN IF device
            THEN /\ connStep' = connStep + 1
                 /\ connPc' = "out"
                 /\ UNCHANGED status
            ELSE connectDeviceCatch
       ELSE /\ connPc' = "true"
            /\ UNCHANGED <<status, connStep>>
    /\ UNCHANGED <<device, devState, messageQueue, sendPc, sendStep, written, reads,
                   statPc, statStep, discPc>>
    /\ UNCHANGED nonUsbVars

InitTransferInReject ==
    /\ connPc = "in"
    /\ connectDeviceCatch
    /\ UNCHANGED <<device, devState, messageQueue, sendPc, sendStep, written, reads,
                   statPc, statStep, discPc>>
    /\ UNCHANGED nonUsbVars

-----------------------------------------------------------------------------
\* getStatus, catch block (lines 138-141): status = 'error'; rethrow
getStatusCatch ==
    /\ status' = "error"
    /\ statPc' = "idle"
    /\ statStep' = 0

\* getStatus is called (lines 116-123): without a device it throws before
\* the try block; otherwise AT+CSQ is written.
getStatus ==
    /\ statPc = "idle"
    /\ IF device
       THEN /\ statPc' = "out"
            /\ statStep' = 1
       ELSE UNCHANGED <<statPc, statStep>>
    /\ UNCHANGED <<status, device, devState, messageQueue, sendPc, sendStep, written,
                   reads, connPc, connStep, discPc>>
    /\ UNCHANGED nonUsbVars

StatusTransferOutResolve ==
    /\ statPc = "out"
    /\ TransferCanSucceed
    /\ IF device
       THEN /\ statPc' = "in"
            /\ UNCHANGED <<status, statStep>>
       ELSE getStatusCatch
    /\ UNCHANGED <<device, devState, messageQueue, sendPc, sendStep, written, reads,
                   connPc, connStep, discPc>>
    /\ UNCHANGED nonUsbVars

StatusTransferOutReject ==
    /\ statPc = "out"
    /\ getStatusCatch
    /\ UNCHANGED <<device, devState, messageQueue, sendPc, sendStep, written, reads,
                   connPc, connStep, discPc>>
    /\ UNCHANGED nonUsbVars

\* transferIn resolves: the next query is written, or getStatus returns
\* after AT+CPIN? (lines 123-137)
StatusTransferInResolve ==
    /\ statPc = "in"
    /\ TransferCanSucceed
    /\ IF statStep < Len(StatusCommands)
       THEN IF device
            THEN /\ statStep' = statStep + 1
                 /\ statPc' = "out"
                 /\ UNCHANGED status
            ELSE getStatusCatch
       ELSE /\ statPc' = "idle"
            /\ statStep' = 0
            /\ UNCHANGED status
    /\ UNCHANGED <<device, devState, messageQueue, sendPc, sendStep, written, reads,
                   connPc, connStep, discPc>>
    /\ UNCHANGED nonUsbVars

StatusTransferInReject ==
    /\ statPc = "in"
    /\ getStatusCatch
    /\ UNCHANGED <<device, devState, messageQueue, sendPc, sendStep, written, reads,
                   connPc, connStep, discPc>>
    /\ UNCHANGED nonUsbVars

-----------------------------------------------------------------------------
\* disconnect is called (lines 144-151): with a device releaseInterface(0) is
\* awaited, without one the status becomes offline at once.
disconnect ==
    /\ discPc = "idle"
    /\ IF device
       THEN /\ discPc' = "release"
            /\ UNCHANGED status
       ELSE /\ status' = "offline"
            /\ UNCHANGED discPc
    /\ UNCHANGED <<device, devState, messageQueue, sendPc, sendStep, written, reads,
                   connPc, connStep, statPc, statStep>>
    /\ UNCHANGED nonUsbVars

\* releaseInterface(0) resolves; close() is awaited (lines 147-148)
ReleaseInterfaceResolve ==
    /\ discPc = "release"
    /\ devState = "claimed"
    /\ devState' = "opened"
    /\ discPc' = IF device THEN "close" ELSE "idle"
    /\ UNCHANGED <<status, device, messageQueue, sendPc, sendStep, written, reads,
                   connPc, connStep, statPc, statStep>>
    /\ UNCHANGED nonUsbVars

\* releaseInterface(0) rejects: the catch block only logs (lines 152-154)
ReleaseInterfaceReject ==
    /\ discPc = "release"
    /\ discPc' = "idle"
    /\ UNCHANGED <<status, device, devState, messageQueue, sendPc, sendStep, written,
                   reads, connPc, connStep, statPc, statStep>>
    /\ UNCHANGED nonUsbVars

\* close() resolves: this.device = null; status = 'offline' (lines 148-151)
CloseResolve ==
    /\ discPc = "close"
    /\ devState' = "closed"
    /\ device' = FALSE
    /\ status' = "offline"
    /\ discPc' = "idle"
    /\ UNCHANGED <<messageQueue, sendPc, sendStep, written, reads,
                   connPc, connStep, statPc, statStep>>
    /\ UNCHANGED nonUsbVars

CloseReject ==
    /\ discPc = "close"
    /\ discPc' = "idle"
    /\ UNCHANGED <<status, device, devState, messageQueue, sendPc, sendStep, written,
                   reads, connPc, connStep, statPc, statStep>>
    /\ UNCHANGED nonUsbVars

-----------------------------------------------------------------------------
\* What the code does on its own once a promise has settled.
UsbCalls ==
    \/ \E c \in Senders : sendSMS(c)
    \/ connectDevice
    \/ getStatus
    \/ disconnect

\* The device completes a write, or reports an error.
UsbDeviceActs ==
    \/ \E c \in Senders : SendTransferOutResolve(c)
    \/ \E c \in Senders : SendTransferOutReject(c)
    \/ RequestDeviceResolve
    \/ RequestDeviceReject
    \/ OpenResolve
    \/ OpenReject
    \/ SelectConfigurationResolve
    \/ SelectConfigurationReject
    \/ ClaimInterfaceResolve
    \/ ClaimInterfaceReject
    \/ InitTransferOutResolve
    \/ InitTransferOutReject
    \/ InitTransferInResolve
    \/ InitTransferInReject
    \/ StatusTransferOutResolve
    \/ StatusTransferOutReject
    \/ StatusTransferInResolve
    \/ StatusTransferInReject
    \/ ReleaseInterfaceResolve
    \/ ReleaseInterfaceReject
    \/ CloseResolve
    \/ CloseReject

\* The device answers a command of a sendSMS call, or the read fails.
UsbDeviceAnswers ==
    \/ \E c \in Senders : SendTransferInResolve(c)
    \/ \E c \in Senders : SendTransferInReject(c)

NextUsb == UsbCalls \/ UsbDeviceActs \/ UsbDeviceAnswers

(***************************************************************************)
(* Polling bridge: SMSBridgeApp.tsx, the messageQueue state                *)
(***************************************************************************)

\* Number of sendSMS(message) calls of the app that may be in progress at
\* once (overlapping poll ticks, the test-SMS dialog).
NumAppSends == 2

AppSenders == 1..NumAppSends

\* Number of distinct message ids the server hands out.
NumMsgIds == 2

MsgIds == {"m" \o ToString(i) : i \in 1..NumMsgIds}

\* Longest messageQueue explored (the app never removes an entry).
MaxAppQueue == 3

\* Ids carried by the native module's events: smsSent carries
\* campaignId_timestamp, smsError carries the phone number; neither is the id
\* of a queued message.
NativeEventIds == {"campaign_ts", "phoneNumber"}

InitPoll ==
    /\ appQueue = <<>>
    /\ appPc = [a \in AppSenders |-> "idle"]
    /\ appMsg = [a \in AppSenders |-> ""]

\* Mutant of updateMessageStatus: only the first entry with the id that does
\* not have the status yet is changed (find instead of map).
updateMessageStatusFirst(prev, messageId, newStatus) ==
    LET hits == {i \in 1..Len(prev) : prev[i].id = messageId /\ prev[i].status # newStatus}
    IN  IF hits = {}
        THEN prev
        ELSE LET first == CHOOSE i \in hits : \A j \in hits : i <= j
             IN  [prev EXCEPT ![first] = [id |-> prev[first].id, status |-> newStatus]]

\* updateMessageStatus (lines 232-238):
\* prev.map(msg => msg.id === messageId ? { ...msg, status } : msg)
updateMessageStatus(prev, messageId, newStatus) ==
    [i \in 1..Len(prev) |->
        IF prev[i].id = messageId
        THEN [id |-> prev[i].id, status |-> newStatus]
        ELSE prev[i]]

\* sendSMS(message) is called (lines 187-195): the message is appended as
\* pending and the native send is awaited.
appSendSMS(a, m) ==
    /\ appPc[a] = "idle"
    /\ Len(appQueue) < MaxAppQueue
    /\ appQueue' = Append(appQueue, [id |-> m, status |-> "pending"])
    /\ appPc' = [appPc EXCEPT ![a] = "native"]
    /\ appMsg' = [appMsg EXCEPT ![a] = m]
    /\ UNCHANGED nonPollVars

\* SmsManagerModule.sendSMS resolves: the success report is sent to the
\* server and awaited (lines 197-208).
AppNativeResolve(a) ==
    /\ appPc[a] = "native"
    /\ appPc' = [appPc EXCEPT ![a] = "reportSent"]
    /\ UNCHANGED <<appQueue, appMsg>>
    /\ UNCHANGED nonPollVars

\* SmsManagerModule.sendSMS rejects: catch block (lines 212-228), the message
\* is marked failed and the failure report is sent and awaited.
AppNativeReject(a) ==
    /\ appPc[a] = "native"
    /\ appQueue' = updateMessageStatus(appQueue, appMsg[a], "failed")
    /\ appPc' = [appPc EXCEPT ![a] = "reportFailed"]
    /\ UNCHANGED appMsg
    /\ UNCHANGED nonPollVars

\* The success report's fetch resolves: updateMessageStatus(id, 'sent')
\* (line 210).
AppReportSentResolve(a) ==
    /\ appPc[a] = "reportSent"
    /\ appQueue' = updateMessageStatus(appQueue, appMsg[a], "sent")
    /\ appPc' = [appPc EXCEPT ![a] = "idle"]
    /\ UNCHANGED appMsg
    /\ UNCHANGED nonPollVars

\* The success report's fetch rejects (network error): catch block (lines
\* 212-228), the message is marked failed and the failure report is sent.
AppReportSentReject(a) ==
    /\ appPc[a] = "reportSent"
    /\ appQueue' = updateMessageStatus(appQueue, appMsg[a], "failed")
    /\ appPc' = [appPc EXCEPT ![a] = "reportFailed"]
    /\ UNCHANGED appMsg
    /\ UNCHANGED nonPollVars

\* The failure report's fetch settles; sendSMS returns or rethrows.
AppReportFailedSettles(a) ==
    /\ appPc[a] = "reportFailed"
    /\ appPc' = [appPc EXCEPT ![a] = "idle"]
    /\ UNCHANGED <<appQueue, appMsg>>
    /\ UNCHANGED nonPollVars

\* The smsSent listener (lines 81-84): updateMessageStatus(data.messageId, 'sent')
OnSmsSentEvent ==
    /\ appQueue' = updateMessageStatus(appQueue, "campaign_ts", "sent")
    /\ UNCHANGED <<appPc, appMsg>>
    /\ UNCHANGED nonPollVars

\* The smsError listener (lines 86-89): updateMessageStatus(data.phoneNumber, 'failed')
OnSmsErrorEvent ==
    /\ appQueue' = updateMessageStatus(appQueue, "phoneNumber", "failed")
    /\ UNCHANGED <<appPc, appMsg>>
    /\ UNCHANGED nonPollVars

NextPoll ==
    \/ \E a \in AppSenders, m \in MsgIds : appSendSMS(a, m)
    \/ \E a \in AppSenders : AppNativeResolve(a)
    \/ \E a \in AppSenders : AppNativeReject(a)
    \/ \E a \in AppSenders : AppReportSentResolve(a)
    \/ \E a \in AppSenders : AppReportSentReject(a)
    \/ \E a \in AppSenders : AppReportFailedSettles(a)
    \/ OnSmsSentEvent
    \/ OnSmsErrorEvent

(***************************************************************************)
(* SMSService.splitLongMessage                                             *)
(***************************************************************************)

\* Longest message drawn (besides the 200-character one).
MaxMsgLen == 4

\* Largest maxLength drawn (besides the default).
MaxSegment == 3

\* splitLongMessage's default maxLength
SegmentSize == 160

Chars == {"a", "b"}

Messages == UNION {[1..k -> Chars] : k \in 0..MaxMsgLen}

\* A 200-character message
LongMessage == [i \in 1..200 |-> IF i % 2 = 1 THEN "a" ELSE "b"]

Min(a, b) == IF a <= b THEN a ELSE b

\* String.prototype.substring(start, end) for 0 <= start <= end
substring(str, start, end) == SubSeq(str, Min(start, Len(str)) + 1, Min(end, Len(str)))

RECURSIVE splitLoop(_, _, _, _)
\* the for loop of splitLongMessage (lines 906-909)
splitLoop(message, maxLength, i, parts) ==
    IF i < Len(message)
    THEN splitLoop(message, maxLength, i + maxLength,
                   Append(parts, substring(message, i, i + maxLength)))
    ELSE parts

RECURSIVE splitLoopWhole(_, _, _, _)
\* Mutant loop: runs only while a whole segment is left (i + maxLength <=
\* message.length), so a shorter last part is dropped.
splitLoopWhole(message, maxLength, i, parts) ==
    IF i + maxLength <= Len(message)
    THEN splitLoopWhole(message, maxLength, i + maxLength,
                        Append(parts, substring(message, i, i + maxLength)))
    ELSE parts

\* Mutant of splitLongMessage
splitLongMessageDropsTail(message, maxLength) ==
    IF Len(message) <= maxLength
    THEN <<message>>
    ELSE splitLoopWhole(message, maxLength, 0, <<>>)

\* splitLongMessage (lines 901-912)
splitLongMessage(message, maxLength) ==
    IF Len(message) <= maxLength
    THEN <<message>>
    ELSE splitLoop(message, maxLength, 0, <<>>)

\* No call of splitLongMessage has been made.
InitSplit ==
    /\ splitMessage = <<>>
    /\ splitMax = SegmentSize
    /\ splitParts = <<>>
    /\ splitPc = "input"

\* The arguments of a call, drawn from the bounded input sets.
InitSplitInputs ==
    /\ \/ splitMessage \in Messages /\ splitMax \in 1..MaxSegment
       \/ splitMessage = LongMessage /\ splitMax = SegmentSize
    /\ splitParts = <<>>
    /\ splitPc = "input"

\* splitLongMessage(message, maxLength) is called and returns.
CallSplitLongMessage ==
    /\ splitPc = "input"
    /\ splitParts' = splitLongMessage(splitMessage, splitMax)
    /\ splitPc' = "done"
    /\ UNCHANGED <<splitMessage, splitMax>>
    /\ UNCHANGED nonSplitVars

NextSplit == CallSplitLongMessage

(***************************************************************************)
(* SMSManagerModule.sendSMS, the native send behind SMSService.sendSMS     *)
(***************************************************************************)

\* Largest number of parts divideMessage yields in the model.
MaxParts == 4

InitNative ==
    /\ natParts = 0
    /\ partResult = <<>>
    /\ smsResult = "none"

\* No part of the last message still waits for its SMS_SENT broadcast.
NoPartPending == \A i \in 1..natParts : partResult[i] # "pending"

\* SMSManagerModule.sendSMS (lines 562-604) under SMSService.sendSMS (lines
\* 819-824): the message is handed to the radio, in n parts when it is longer
\* than 160 characters (sendMultipartTextMessage with one sent intent per
\* part), and the promise is resolved with status "sent" at once; SMSService
\* returns success: true.
NativeSendSMS(n) ==
    /\ NoPartPending
    /\ natParts' = n
    /\ partResult' = [i \in 1..n |-> "pending"]
    /\ smsResult' = "success"
    /\ UNCHANGED nonNativeVars

\* SMSManagerModule.sendSMS rejects (permission denied, or the SmsManager call
\* throws; lines 565-568, 605-607); SMSService returns success: false (lines
\* 825-839).
NativeSendSMSRejects ==
    /\ NoPartPending
    /\ natParts' = 0
    /\ partResult' = <<>>
    /\ smsResult' = "failure"
    /\ UNCHANGED nonNativeVars

\* The SMS_SENT broadcast of part i arrives with a result code; the receiver
\* (lines 733-756) reads the code and does nothing with it.
OnSmsSentBroadcast(i, code) ==
    /\ i \in 1..natParts
    /\ partResult[i] = "pending"
    /\ partResult' = [partResult EXCEPT ![i] = code]
    /\ UNCHANGED <<natParts, smsResult>>
    /\ UNCHANGED nonNativeVars

NextNative ==
    \/ \E n \in 1..MaxParts : NativeSendSMS(n)
    \/ NativeSendSMSRejects
    \/ \E i \in 1..MaxParts, code \in {"ok", "error"} : OnSmsSentBroadcast(i, code)

(***************************************************************************)
(* WebSocket bridge: NetworkService and handleSendSMSRequest               *)
(***************************************************************************)

\* Number of WebSocket objects alive at once (a closed one is reused).
MaxSockets == 2

Sockets == 1..MaxSockets

\* Number of send-sms requests the server pushes.
NumRequests == 2

Requests == 1..NumRequests

InitWs ==
    /\ sock = [s \in Sockets |-> "none"]
    /\ nsSocket = 0
    /\ isConnected = FALSE
    /\ reconnectTimeout = FALSE
    /\ reconnectTimers = 0
    /\ connectPromise = [s \in Sockets |-> "none"]
    /\ connectTimer = [s \in Sockets |-> FALSE]
    /\ nsConfigured = FALSE
    /\ handlers = FALSE
    /\ heartbeatInterval = FALSE
    /\ hbLeaked = FALSE
    /\ nsDisconnected = FALSE
    /\ reqPc = [r \in Requests |-> "none"]
    /\ reqResult = [r \in Requests |-> "none"]
    /\ reports = [r \in Requests |-> <<>>]
    /\ delivered = [r \in Requests |-> <<>>]

\* A socket object that fires no more events: never created, or closed with
\* its connection timeout gone.
FreeSocket(s) == sock[s] \in {"none", "dead"} /\ ~connectTimer[s]

\* NetworkService.connect (lines 21-76) called by awaiter: serverUrl and
\* deviceInfo are stored, a new WebSocket becomes this.socket and the 10 s
\* timeout is armed.
connect(s, awaiter) ==
    /\ FreeSocket(s)
    /\ sock' = [sock EXCEPT ![s] = "connecting"]
    /\ nsSocket' = s
    /\ connectPromise' = [connectPromise EXCEPT ![s] = awaiter]
    /\ connectTimer' = [connectTimer EXCEPT ![s] = TRUE]
    /\ nsConfigured' = TRUE
    /\ nsDisconnected' = FALSE

\* startHeartbeat (lines 150-156): a new interval is stored in
\* this.heartbeatInterval; an interval stored there before keeps running, and
\* nothing can clear it any more.
startHeartbeat ==
    /\ heartbeatInterval' = TRUE
    /\ hbLeaked' = (hbLeaked \/ heartbeatInterval)

\* stopHeartbeat (lines 158-163): the interval in this.heartbeatInterval is
\* cleared.
stopHeartbeat ==
    /\ heartbeatInterval' = FALSE
    /\ UNCHANGED hbLeaked

\* Mutant of scheduleReconnect: the already-scheduled check is missing.
scheduleReconnectUnguarded ==
    /\ reconnectTimeout' = TRUE
    /\ reconnectTimers' = reconnectTimers + 1

\* scheduleReconnect (lines 165-175): arms the 5 s timer unless one is pending
scheduleReconnect ==
    IF reconnectTimeout
    THEN UNCHANGED <<reconnectTimeout, reconnectTimers>>
    ELSE /\ reconnectTimeout' = TRUE
         /\ reconnectTimers' = reconnectTimers + 1

\* connect()'s promise of socket s is rejected: attemptReconnect's catch
\* schedules a reconnect (lines 186-189); startBridgeService's catch leaves
\* the service alone (part_003 lines 168-172).
RejectConnect(s) ==
    /\ connectPromise' = [connectPromise EXCEPT ![s] = "none"]
    /\ IF connectPromise[s] = "reconnect"
       THEN scheduleReconnect
       ELSE UNCHANGED <<reconnectTimeout, reconnectTimers>>

\* startBridgeService (part_003 lines 140-159) calls networkService.connect
StartBridge(s) ==
    /\ ~nsConfigured \/ nsDisconnected
    /\ connect(s, "start")
    /\ UNCHANGED <<isConnected, reconnectTimeout, reconnectTimers, handlers,
                   heartbeatInterval, hbLeaked, reqPc, reqResult, reports, delivered>>
    /\ UNCHANGED nonWsVars

\* socket.onopen (lines 30-41): isConnected = true, startHeartbeat, resolve(); resolved for
\* startBridgeService, the message handlers are registered (part_003 162-164)
SocketOpens(s) ==
    /\ sock[s] = "connecting"
    /\ sock' = [sock EXCEPT ![s] = "open"]
    /\ isConnected' = TRUE
    /\ connectPromise' = [connectPromise EXCEPT ![s] = "none"]
    /\ handlers' = (handlers \/ connectPromise[s] = "start")
    /\ startHeartbeat
    /\ UNCHANGED <<nsSocket, reconnectTimeout, reconnectTimers, connectTimer, nsConfigured,
                   nsDisconnected, reqPc, reqResult, reports, delivered>>
    /\ UNCHANGED nonWsVars

\* socket.onerror (lines 59-63): isConnected = false, reject(error); the
\* socket then closes.
SocketErrors(s) ==
    /\ sock[s] \in {"connecting", "open"}
    /\ sock' = [sock EXCEPT ![s] = "closing"]
    /\ isConnected' = FALSE
    /\ RejectConnect(s)
    /\ UNCHANGED <<nsSocket, connectTimer, nsConfigured, handlers, heartbeatInterval,
                   hbLeaked, nsDisconnected, reqPc, reqResult, reports, delivered>>
    /\ UNCHANGED nonWsVars

\* socket.onclose (lines 52-57): isConnected = false, stopHeartbeat,
\* scheduleReconnect
SocketCloses(s) ==
    /\ sock[s] \in {"open", "closing"}
    /\ sock' = [sock EXCEPT ![s] = "dead"]
    /\ isConnected' = FALSE
    /\ stopHeartbeat
    /\ scheduleReconnect
    /\ UNCHANGED <<nsSocket, connectPromise, connectTimer, nsConfigured, handlers,
                   nsDisconnected, reqPc, reqResult, reports, delivered>>
    /\ UNCHANGED nonWsVars

\* The connection timeout of connect() fires (lines 66-70): the promise is
\* rejected if the service is not connected.
ConnectTimeoutFires(s) ==
    /\ connectTimer[s]
    /\ connectTimer' = [connectTimer EXCEPT ![s] = FALSE]
    /\ IF ~isConnected /\ connectPromise[s] # "none"
       THEN RejectConnect(s)
       ELSE UNCHANGED <<connectPromise, reconnectTimeout, reconnectTimers>>
    /\ UNCHANGED <<sock, nsSocket, isConnected, nsConfigured, handlers, heartbeatInterval,
                   hbLeaked, nsDisconnected, reqPc, reqResult, reports, delivered>>
    /\ UNCHANGED nonWsVars

\* The reconnect timer fires (lines 171-174) and attemptReconnect (177-190)
\* returns at once: the service is connected.
ReconnectTimerFiresConnected ==
    /\ reconnectTimers > 0
    /\ isConnected \/ ~nsConfigured
    /\ reconnectTimeout' = FALSE
    /\ reconnectTimers' = reconnectTimers - 1
    /\ UNCHANGED <<sock, nsSocket, isConnected, connectPromise, connectTimer,
                   nsConfigured, handlers, heartbeatInterval, hbLeaked, nsDisconnected,
                   reqPc, reqResult, reports, delivered>>
    /\ UNCHANGED nonWsVars

\* The reconnect timer fires and attemptReconnect calls connect().
ReconnectTimerFires(s) ==
    /\ reconnectTimers > 0
    /\ ~isConnected /\ nsConfigured
    /\ reconnectTimeout' = FALSE
    /\ reconnectTimers' = reconnectTimers - 1
    /\ connect(s, "reconnect")
    /\ UNCHANGED <<isConnected, handlers, heartbeatInterval, hbLeaked, reqPc, reqResult,
                   reports, delivered>>
    /\ UNCHANGED nonWsVars

\* NetworkService.disconnect (lines 78-92): the reconnect timer and the
\* heartbeat are cleared, this.socket is closed and dropped; the socket's
\* close event is delivered later.
Disconnect ==
    /\ nsConfigured /\ ~nsDisconnected
    /\ reconnectTimeout' = FALSE
    /\ reconnectTimers' = IF reconnectTimeout THEN reconnectTimers - 1 ELSE reconnectTimers
    /\ stopHeartbeat
    /\ sock' = IF nsSocket # 0 /\ sock[nsSocket] \in {"connecting", "open"}
               THEN [sock EXCEPT ![nsSocket] = "closing"]
               ELSE sock
    /\ nsSocket' = 0
    /\ isConnected' = FALSE
    /\ nsDisconnected' = TRUE
    /\ UNCHANGED <<connectPromise, connectTimer, nsConfigured, handlers, reqPc, reqResult,
                   reports, delivered>>
    /\ UNCHANGED nonWsVars

\* NetworkService.send (lines 94-112): the message is written only if
\* this.socket exists and is open; otherwise it is dropped with a warning.
SocketIsOpen == nsSocket # 0 /\ sock[nsSocket] = "open"

RECURSIVE send(_, _)
\* networkService.send applied to each report type in turn: the list of the
\* reports written to the socket.
send(types, out) ==
    IF types = <<>>
    THEN out
    ELSE send(Tail(types), IF SocketIsOpen THEN Append(out, Head(types)) ELSE out)

\* Mutant of ReportsFor: after sms-sent a statement inside the try block
\* throws, so the catch block reports sms-failed as well.
ReportsForThrowsAfterSent(result) ==
    IF result = "success" THEN <<"sms-sent", "sms-failed">> ELSE <<"sms-failed">>

\* handleSendSMSRequest (part_003 lines 192-211): the reports it passes to
\* networkService.send for an outcome of the local send.
ReportsFor(result) ==
    IF result = "success" THEN <<"sms-sent">> ELSE <<"sms-failed">>

\* handleSendSMSRequest finishes for request r with the given outcome.
FinishRequest(r, result) ==
    /\ reqPc' = [reqPc EXCEPT ![r] = "done"]
    /\ reqResult' = [reqResult EXCEPT ![r] = result]
    /\ reports' = [reports EXCEPT ![r] = reports[r] \o ReportsFor(result)]
    /\ delivered' = [delivered EXCEPT ![r] = send(ReportsFor(result), delivered[r])]

\* A send-sms message arrives on an open socket (lines 43-50, 122-135) and
\* handleSendSMSRequest starts (part_003 lines 186-190): it awaits
\* smsService.sendSMS, or data.message.substring throws on a message without
\* a text and the catch block reports the failure.
OnSendSmsMessage(r) ==
    /\ reqPc[r] = "none"
    /\ handlers
    /\ \E s \in Sockets : sock[s] = "open"
    /\ \/ /\ reqPc' = [reqPc EXCEPT ![r] = "sending"]
          /\ UNCHANGED <<reqResult, reports, delivered>>
       \/ FinishRequest(r, "threw")
    /\ UNCHANGED <<sock, nsSocket, isConnected, reconnectTimeout, reconnectTimers,
                   connectPromise, connectTimer, nsConfigured, handlers,
                   heartbeatInterval, hbLeaked, nsDisconnected>>
    /\ UNCHANGED nonWsVars

\* smsService.sendSMS returns (it never rejects) and handleSendSMSRequest
\* reports the outcome (part_003 lines 190-211).
SendSMSReturns(r, result) ==
    /\ reqPc[r] = "sending"
    /\ FinishRequest(r, result)
    /\ UNCHANGED <<sock, nsSocket, isConnected, reconnectTimeout, reconnectTimers,
                   connectPromise, connectTimer, nsConfigured, handlers,
                   heartbeatInterval, hbLeaked, nsDisconnected>>
    /\ UNCHANGED nonWsVars

NextWs ==
    \/ \E s \in Sockets : StartBridge(s)
    \/ \E s \in Sockets : SocketOpens(s)
    \/ \E s \in Sockets : SocketErrors(s)
    \/ \E s \in Sockets : SocketCloses(s)
    \/ \E s \in Sockets : ConnectTimeoutFires(s)
    \/ ReconnectTimerFiresConnected
    \/ \E s \in Sockets : ReconnectTimerFires(s)
    \/ \E r \in Requests : OnSendSmsMessage(r)
    \/ \E r \in Requests, result \in {"success", "failure"} : SendSMSReturns(r, result)

(***************************************************************************)
(* SMSService.sendSMS: validation and the native call                      *)
(***************************************************************************)

\* Longest message argument tried.
MaxSvcMsgLen == 2

\* Digit counts of the phone numbers tried, around the limits of the
\* validation pattern.
DigitCounts == {0, 3, 4, 5, 15, 16, 17, 18}

DigitChars == {"0", "1", "2", "3", "4", "5", "6", "7", "8", "9"}

Digits(n) == [i \in 1..n |-> "1"]

\* Phone numbers tried: an optional prefix, a run of digits, an optional tail.
Phones ==
    {pre \o Digits(n) \o post :
        pre \in {<<>>, <<"+">>, <<"(">>},
        n \in DigitCounts,
        post \in {<<>>, <<"-", "1">>, <<"+">>, <<"x">>}}

SvcMessages == UNION {[1..n -> {" ", "a"}] : n \in 0..MaxSvcMsgLen}

Platforms == {"android", "ios"}

\* Messages of the errors nativeModule.sendSMS rejects with.
NativeErrors == {"SEND_FAILED", ""}

NoResult == [success |-> FALSE, error |-> "none"]

InitSvc ==
    /\ svcPc = "idle"
    /\ svcPlatform = "android"
    /\ svcPhone = <<>>
    /\ svcMessage = <<>>
    /\ svcResult = NoResult
    /\ svcNativeArgs = <<>>

\* cleanPhoneNumber (lines 882-892): every character but digits and + is
\* removed; a leading + is put back in front of the rest.
cleanPhoneNumber(phoneNumber) ==
    LET cleaned == SelectSeq(phoneNumber, LAMBDA c : c \in DigitChars \cup {"+"})
    IN  IF phoneNumber # <<>> /\ phoneNumber[1] = "+"
        THEN <<"+">> \o SubSeq(cleaned, 2, Len(cleaned))
        ELSE cleaned

AllDigits(str) == \A i \in 1..Len(str) : str[i] \in DigitChars

\* isValidPhoneNumber (lines 894-899): /^(\+\d{1,3}\d{4,14}|\d{4,15})$/
isValidPhoneNumber(phoneNumber) ==
    \/ /\ phoneNumber # <<>> /\ phoneNumber[1] = "+"
       /\ AllDigits(Tail(phoneNumber))
       /\ \E cc \in 1..3 : Len(phoneNumber) - 1 - cc \in 4..14
    \/ AllDigits(phoneNumber) /\ Len(phoneNumber) \in 4..15

RECURSIVE trimStart(_)
trimStart(str) ==
    IF str # <<>> /\ str[1] = " " THEN trimStart(Tail(str)) ELSE str

RECURSIVE trimEnd(_)
trimEnd(str) ==
    IF str # <<>> /\ str[Len(str)] = " "
    THEN trimEnd(SubSeq(str, 1, Len(str) - 1))
    ELSE str

\* String.prototype.trim
trim(str) == trimEnd(trimStart(str))

\* Mutant of svcValidate: the empty-message check is missing.
svcValidateNoMessageCheck(platform, phoneNumber, message) ==
    IF platform # "android"
    THEN "SMS functionality not available on this platform"
    ELSE IF ~isValidPhoneNumber(cleanPhoneNumber(phoneNumber))
    THEN "Invalid phone number format"
    ELSE "ok"

\* SMSService.sendSMS before the native call (lines 793-816): the error it
\* returns, or "ok" when it goes on to the native module.
svcValidate(platform, phoneNumber, message) ==
    IF platform # "android"
    THEN "SMS functionality not available on this platform"
    ELSE IF ~isValidPhoneNumber(cleanPhoneNumber(phoneNumber))
    THEN "Invalid phone number format"
    ELSE IF Len(trim(message)) = 0
    THEN "Message cannot be empty"
    ELSE "ok"

\* SMSService.sendSMS is called (lines 792-819): it returns a failure of the
\* validation, or calls nativeModule.sendSMS(cleanNumber, message.trim()).
svcSendSMS(platform, phoneNumber, message) ==
    /\ svcPc \in {"idle", "returned"}
    /\ svcPlatform' = platform
    /\ svcPhone' = phoneNumber
    /\ svcMessage' = message
    /\ IF svcValidate(platform, phoneNumber, message) = "ok"
       THEN /\ svcPc' = "native"
            /\ svcResult' = NoResult
            /\ svcNativeArgs' = <<<<cleanPhoneNumber(phoneNumber), trim(message)>>>>
       ELSE /\ svcPc' = "returned"
            /\ svcResult' = [success |-> FALSE,
                             error |-> svcValidate(platform, phoneNumber, message)]
            /\ svcNativeArgs' = <<>>
    /\ UNCHANGED nonSvcVars

\* nativeModule.sendSMS resolves (lines 819-824): success: true
SvcNativeResolves ==
    /\ svcPc = "native"
    /\ svcPc' = "returned"
    /\ svcResult' = [success |-> TRUE, error |-> ""]
    /\ UNCHANGED <<svcPlatform, svcPhone, svcMessage, svcNativeArgs>>
    /\ UNCHANGED nonSvcVars

\* nativeModule.sendSMS rejects with an Error (lines 825-839): success: false
\* with the error's message, or 'Unknown error occurred' for an empty one.
SvcNativeRejects(message) ==
    /\ svcPc = "native"
    /\ svcPc' = "returned"
    /\ svcResult' = [success |-> FALSE,
                     error |-> IF message # "" THEN message ELSE "Unknown error occurred"]
    /\ UNCHANGED <<svcPlatform, svcPhone, svcMessage, svcNativeArgs>>
    /\ UNCHANGED nonSvcVars

NextSvc ==
    \/ \E platform \in Platforms, phoneNumber \in Phones, message \in SvcMessages :
          svcSendSMS(platform, phoneNumber, message)
    \/ SvcNativeResolves
    \/ \E message \in NativeErrors : SvcNativeRejects(message)

(***************************************************************************)
(* Device registration: the bridge apps register with the Device Registry  *)
(***************************************************************************)

\* Number of physical phones.
NumPhones == 3

PhoneSet == 1..NumPhones

\* telephonyManager.getDeviceId() / DeviceInfo.getUniqueId() of a phone
UniqueId(d) == "id" \o ToString(d)

DeviceIds == {UniqueId(d) : d \in PhoneSet} \cup {"unknown"}

\* Identities by which the registry tells devices apart: (transport, serial)
Identities == {<<"wifi", id>> : id \in DeviceIds}

InitReg ==
    /\ deviceStatus = [d \in PhoneSet |-> FALSE]
    /\ registry = [i \in Identities |-> {}]
    /\ registeredAs = [d \in PhoneSet |-> {}]

\* Device Registry register(descriptor) -> id, idempotent by (transport,
\* serial): the entry of the identity is created or found again.
register(d, identity) ==
    /\ registry' = [registry EXCEPT ![identity] = registry[identity] \cup {d}]
    /\ registeredAs' = [registeredAs EXCEPT ![d] = registeredAs[d] \cup {identity}]

\* connectToServer (lines 108-119): the deviceId it registers with, given
\* whether the deviceStatus of its closure is loaded.
connectToServerDeviceId(d, loaded) ==
    IF loaded THEN UniqueId(d) ELSE "unknown"

\* updateDeviceStatus (lines 167-170): setDeviceStatus(status)
updateDeviceStatus(d) ==
    /\ ~deviceStatus[d]
    /\ deviceStatus' = [deviceStatus EXCEPT ![d] = TRUE]
    /\ UNCHANGED <<registry, registeredAs>>
    /\ UNCHANGED nonRegVars

\* connectToServer called from the closure of the first render, where
\* deviceStatus is null: by initializeApp (lines 52-72), by the NetInfo
\* listener (lines 92-95) and by its own retry timer (line 137).
ConnectFromMount(d) ==
    /\ register(d, <<"wifi", connectToServerDeviceId(d, FALSE)>>)
    /\ UNCHANGED deviceStatus
    /\ UNCHANGED nonRegVars

\* connectToServer called by saveServerUrl (lines 245-248) from the current
\* render.
ConnectFromSave(d) ==
    /\ register(d, <<"wifi", connectToServerDeviceId(d, deviceStatus[d])>>)
    /\ UNCHANGED deviceStatus
    /\ UNCHANGED nonRegVars

\* NetworkService onopen (NetworkService.ts lines 30-35): register-device with
\* the deviceInfo of startBridgeService (part_003 line 155), on every
\* connection and reconnection.
RegisterDevice(d) ==
    /\ register(d, <<"wifi", UniqueId(d)>>)
    /\ UNCHANGED deviceStatus
    /\ UNCHANGED nonRegVars

NextReg ==
    \/ \E d \in PhoneSet : updateDeviceStatus(d)
    \/ \E d \in PhoneSet : ConnectFromMount(d)
    \/ \E d \in PhoneSet : ConnectFromSave(d)
    \/ \E d \in PhoneSet : RegisterDevice(d)

(***************************************************************************)
(* Message Queue, Dispatcher, Campaign Runner and Device Registry          *)
(***************************************************************************)

\* Campaigns of the fairness scenario.
NumCampaigns == 3

Campaigns == 1..NumCampaigns

\* Devices of the fleet.
NumDevices == 2

DeviceSet == 1..NumDevices

\* Campaigns and recipients per campaign of the small fleet.
SmallCampaigns == 2

SmallRecipients == 2

\* Configured maximum of attempts before a message fails permanently.
MaxRetries == 2

\* Failed sends one run may contain.
MaxFailedSends == 2

\* Fairness scenario: 10 messages per campaign, 1 device, completed counts
\* at most 4 apart.
FairnessRecipients == 10

FairnessGap == 4

\* Failed sends of a run of the fairness scenario.
FairnessFailedSends == 4

\* Rate scenario: 10 messages per minute, 25 recipients, at least 150 s.
RateRecipients == 25

RatePerMinute == 10

RateSeconds == 150

\* Seconds per tick of the clock.
TickSeconds == 6

\* Ticks between two emissions at a rate of r messages per minute: 60 / r
\* seconds, rounded up to whole ticks.
IntervalTicks(r) == ((60 + r * TickSeconds - 1) \div (r * TickSeconds))

MsgStates == {"queued", "assigned", "sending", "sent", "failed",
              "permanently_failed", "cancelled"}

TerminalStates == {"sent", "permanently_failed", "cancelled"}

\* Message k of campaign c
Msg(c, k) == <<c, k>>

CampaignOf(m) == m[1]

InFlight(d) == Cardinality(holding[d])

\* The state before any campaign is created, with every device online.
InitDispatchWith(count, n, ticks, devices, failures) ==
    /\ campState = [c \in Campaigns |-> IF c <= count THEN "scheduled" ELSE "none"]
    /\ recipients = [c \in Campaigns |-> IF c <= count THEN n ELSE 0]
    /\ interval = [c \in Campaigns |-> ticks]
    /\ emitted = [c \in Campaigns |-> 0]
    /\ sinceEmit = [c \in Campaigns |-> 0]
    /\ elapsed = [c \in Campaigns |-> 0]
    /\ msgs = <<>>
    /\ cqueue = [c \in Campaigns |-> <<>>]
    /\ rrPointer = 0
    /\ devHealth = [d \in DeviceSet |-> IF d <= devices THEN "online" ELSE "offline"]
    /\ holding = [d \in DeviceSet |-> {}]
    /\ failuresLeft = failures

\* Fairness scenario: 3 running campaigns with 10 queued messages each, and
\* 1 device.
InitFairnessScenario ==
    /\ campState = [c \in Campaigns |-> "running"]
    /\ recipients = [c \in Campaigns |-> FairnessRecipients]
    /\ interval = [c \in Campaigns |-> 0]
    /\ emitted = [c \in Campaigns |-> FairnessRecipients]
    /\ sinceEmit = [c \in Campaigns |-> 0]
    /\ elapsed = [c \in Campaigns |-> 0]
    /\ msgs = [m \in {Msg(c, k) : c \in Campaigns, k \in 1..FairnessRecipients} |->
                 [state |-> "queued", attempt_count |-> 0]]
    /\ cqueue = [c \in Campaigns |-> [k \in 1..FairnessRecipients |-> Msg(c, k)]]
    /\ rrPointer = 0
    /\ devHealth = [d \in DeviceSet |-> IF d = 1 THEN "online" ELSE "offline"]
    /\ holding = [d \in DeviceSet |-> {}]
    /\ failuresLeft = FairnessFailedSends

\* Rate scenario: 1 scheduled campaign of 25 recipients at 10 messages per
\* minute, and 1 device that acknowledges every send.
InitRateScenario ==
    InitDispatchWith(1, RateRecipients, IntervalTicks(RatePerMinute), 1, 0)

InitDispatch ==
    InitDispatchWith(SmallCampaigns, SmallRecipients, 0, NumDevices, MaxFailedSends)

\* selectCandidates: an online device with spare capacity
Eligible(d) == devHealth[d] = "online" /\ InFlight(d) < ConcurrencyLimit

\* A campaign the queue draws from: running, with a queued message.
Drawable(c) == campState[c] = "running" /\ cqueue[c] # <<>>

\* Mutant of RoundRobin: the pointer is ignored and the first drawable
\* campaign is taken.
RoundRobinFromFirst(ptr) ==
    CHOOSE c \in Campaigns : Drawable(c) /\ \A b \in 1..(c - 1) : ~Drawable(b)

\* Global draw order: the first drawable campaign after the pointer, going
\* round the campaigns.
RoundRobin(ptr) ==
    LET at(k) == ((ptr + k - 1) % NumCampaigns) + 1
        first == CHOOSE k \in 1..NumCampaigns :
                    /\ Drawable(at(k))
                    /\ \A j \in 1..(k - 1) : ~Drawable(at(j))
    IN  at(first)

SetState(m, st) == [msgs EXCEPT ![m].state = st]

\* Requeue of message m: it goes to the back of its campaign's queue.
Requeued(ms, q, m) ==
    <<[ms EXCEPT ![m].state = "queued"],
      [q EXCEPT ![CampaignOf(m)] = Append(q[CampaignOf(m)], m)]>>

RECURSIVE RequeueAll(_, _, _)
\* Requeue of every message of a set, in the order of the message ids.
RequeueAll(ms, q, set) ==
    IF set = {}
    THEN <<ms, q>>
    ELSE LET m == CHOOSE x \in set : \A y \in set : x[1] < y[1] \/ (x[1] = y[1] /\ x[2] <= y[2])
             r == Requeued(ms, q, m)
         IN  RequeueAll(r[1], r[2], set \ {m})

\* Mutant of Draw: the message is read from the head of the queue and not
\* removed from it.
DrawPeeks(d) ==
    /\ Eligible(d)
    /\ \E c \in Campaigns : Drawable(c)
    /\ LET c == RoundRobin(rrPointer)
           m == Head(cqueue[c])
       IN  /\ msgs' = SetState(m, "assigned")
           /\ holding' = [holding EXCEPT ![d] = holding[d] \cup {m}]
           /\ rrPointer' = c
           /\ UNCHANGED cqueue
    /\ UNCHANGED <<campState, recipients, interval, emitted, sinceEmit, elapsed,
                   devHealth, failuresLeft>>
    /\ UNCHANGED nonDispVars

\* Dispatcher loop, draw and assign: for a device with spare capacity the
\* next message in the global draw order is popped and assigned to it.
Draw(d) ==
    /\ Eligible(d)
    /\ \E c \in Campaigns : Drawable(c)
    /\ LET c == RoundRobin(rrPointer)
           m == Head(cqueue[c])
       IN  /\ cqueue' = [cqueue EXCEPT ![c] = Tail(cqueue[c])]
           /\ msgs' = SetState(m, "assigned")
           /\ holding' = [holding EXCEPT ![d] = holding[d] \cup {m}]
           /\ rrPointer' = c
    /\ UNCHANGED <<campState, recipients, interval, emitted, sinceEmit, elapsed,
                   devHealth, failuresLeft>>
    /\ UNCHANGED nonDispVars

\* The adapter of the device is invoked for an assigned message.
InvokeAdapter(d, m) ==
    /\ m \in holding[d]
    /\ msgs[m].state = "assigned"
    /\ msgs' = SetState(m, "sending")
    /\ UNCHANGED <<campState, recipients, interval, emitted, sinceEmit, elapsed,
                   cqueue, rrPointer, devHealth, holding, failuresLeft>>
    /\ UNCHANGED nonDispVars

\* On success: mark sent, release device capacity.
SendSucceeds(d, m) ==
    /\ m \in holding[d]
    /\ msgs[m].state = "sending"
    /\ msgs' = SetState(m, "sent")
    /\ holding' = [holding EXCEPT ![d] = holding[d] \ {m}]
    /\ UNCHANGED <<campState, recipients, interval, emitted, sinceEmit, elapsed,
                   cqueue, rrPointer, devHealth, failuresLeft>>
    /\ UNCHANGED nonDispVars

\* Mutant of AfterFailure: the message is requeued whatever its count.
AfterFailureAlwaysRetries(count) == "failed"

\* On failure, after attempt_count was incremented to count: requeue after a
\* backoff if below max_retries, otherwise permanently_failed.
AfterFailure(count) ==
    IF count < MaxRetries THEN "failed" ELSE "permanently_failed"

\* On a retryable failure (TransportError, TimeoutError, DeviceBusyError):
\* increment attempt_count, then back off or fail permanently; release the
\* device.
SendFails(d, m) ==
    /\ m \in holding[d]
    /\ msgs[m].state = "sending"
    /\ failuresLeft > 0
    /\ failuresLeft' = failuresLeft - 1
    /\ msgs' = [msgs EXCEPT ![m].attempt_count = msgs[m].attempt_count + 1,
                            ![m].state = AfterFailure(msgs[m].attempt_count + 1)]
    /\ holding' = [holding EXCEPT ![d] = holding[d] \ {m}]
    /\ UNCHANGED <<campState, recipients, interval, emitted, sinceEmit, elapsed,
                   cqueue, rrPointer, devHealth>>
    /\ UNCHANGED nonDispVars

\* SendRejectedError: no retry, immediate permanently_failed.
SendRejected(d, m) ==
    /\ m \in holding[d]
    /\ msgs[m].state = "sending"
    /\ failuresLeft > 0
    /\ failuresLeft' = failuresLeft - 1
    /\ msgs' = SetState(m, "permanently_failed")
    /\ holding' = [holding EXCEPT ![d] = holding[d] \ {m}]
    /\ UNCHANGED <<campState, recipients, interval, emitted, sinceEmit, elapsed,
                   cqueue, rrPointer, devHealth>>
    /\ UNCHANGED nonDispVars

\* The backoff delay of a failed message is over: it is requeued.
BackoffElapses(m) ==
    /\ m \in DOMAIN msgs
    /\ msgs[m].state = "failed"
    /\ msgs' = Requeued(msgs, cqueue, m)[1]
    /\ cqueue' = Requeued(msgs, cqueue, m)[2]
    /\ UNCHANGED <<campState, recipients, interval, emitted, sinceEmit, elapsed,
                   rrPointer, devHealth, holding, failuresLeft>>
    /\ UNCHANGED nonDispVars

\* Mutant of HeartbeatTimeout: the messages in flight on the lost device are
\* counted as failed attempts.
HeartbeatTimeoutCountsAttempt(d) ==
    /\ devHealth[d] = "online"
    /\ devHealth' = [devHealth EXCEPT ![d] = "offline"]
    /\ LET bumped == [m \in DOMAIN msgs |->
                        IF m \in holding[d]
                        THEN [msgs[m] EXCEPT !.attempt_count = @ + 1]
                        ELSE msgs[m]]
       IN  /\ msgs' = RequeueAll(bumped, cqueue, holding[d])[1]
           /\ cqueue' = RequeueAll(bumped, cqueue, holding[d])[2]
    /\ holding' = [holding EXCEPT ![d] = {}]
    /\ UNCHANGED <<campState, recipients, interval, emitted, sinceEmit, elapsed,
                   rrPointer, failuresLeft>>
    /\ UNCHANGED nonDispVars

\* The heartbeat of a device is absent beyond the timeout: the device goes
\* offline and its in-flight messages are requeued, attempt_count unchanged.
HeartbeatTimeout(d) ==
    /\ devHealth[d] = "online"
    /\ devHealth' = [devHealth EXCEPT ![d] = "offline"]
    /\ msgs' = RequeueAll(msgs, cqueue, holding[d])[1]
    /\ cqueue' = RequeueAll(msgs, cqueue, holding[d])[2]
    /\ holding' = [holding EXCEPT ![d] = {}]
    /\ UNCHANGED <<campState, recipients, interval, emitted, sinceEmit, elapsed,
                   rrPointer, failuresLeft>>
    /\ UNCHANGED nonDispVars

\* heartbeat(id, health) of an offline device: it is online again.
Heartbeat(d) ==
    /\ devHealth[d] = "offline"
    /\ devHealth' = [devHealth EXCEPT ![d] = "online"]
    /\ UNCHANGED <<campState, recipients, interval, emitted, sinceEmit, elapsed,
                   msgs, cqueue, rrPointer, holding, failuresLeft>>
    /\ UNCHANGED nonDispVars

\* Campaign Runner: scheduled -> running at the start time; the first
\* message is emitted one interval later.
StartCampaign(c) ==
    /\ campState[c] = "scheduled"
    /\ campState' = [campState EXCEPT ![c] = "running"]
    /\ sinceEmit' = [sinceEmit EXCEPT ![c] = 0]
    /\ elapsed' = [elapsed EXCEPT ![c] = 0]
    /\ UNCHANGED <<recipients, interval, emitted, msgs, cqueue, rrPointer, devHealth,
                   holding, failuresLeft>>
    /\ UNCHANGED nonDispVars

\* Mutant of EmitDue: a message is emitted whenever the campaign is running.
EmitDueAtOnce(c) == TRUE

\* The emission of campaign c is due: one interval has passed since the last
\* emission (or since the start).
EmitDue(c) == sinceEmit[c] >= interval[c]

\* Emission is open to a running campaign with recipients left.
CanEmit(c) ==
    /\ campState[c] = "running"
    /\ emitted[c] < recipients[c]

\* Campaign Runner: the next personalized message of a running campaign is
\* emitted into the queue at the configured rate.
Emit(c) ==
    /\ CanEmit(c)
    /\ EmitDue(c)
    /\ LET m == Msg(c, emitted[c] + 1)
       IN  /\ msgs' = [x \in DOMAIN msgs \cup {m} |->
                          IF x = m THEN [state |-> "queued", attempt_count |-> 0]
                          ELSE msgs[x]]
           /\ cqueue' = [cqueue EXCEPT ![c] = Append(cqueue[c], m)]
    /\ emitted' = [emitted EXCEPT ![c] = emitted[c] + 1]
    /\ sinceEmit' = [sinceEmit EXCEPT ![c] = 0]
    /\ UNCHANGED <<campState, recipients, interval, elapsed, rrPointer, devHealth,
                   holding, failuresLeft>>
    /\ UNCHANGED nonDispVars

\* Pause halts emission (and draws); in-flight messages finish.
PauseCampaign(c) ==
    /\ campState[c] = "running"
    /\ campState' = [campState EXCEPT ![c] = "paused"]
    /\ UNCHANGED <<recipients, interval, emitted, sinceEmit, elapsed, msgs, cqueue,
                   rrPointer, devHealth, holding, failuresLeft>>
    /\ UNCHANGED nonDispVars

ResumeCampaign(c) ==
    /\ campState[c] = "paused"
    /\ campState' = [campState EXCEPT ![c] = "running"]
    /\ UNCHANGED <<recipients, interval, emitted, sinceEmit, elapsed, msgs, cqueue,
                   rrPointer, devHealth, holding, failuresLeft>>
    /\ UNCHANGED nonDispVars

\* Mutant of CancelCampaign: the queued messages are left in the queue.
CancelCampaignKeepsQueue(c) ==
    /\ campState[c] \in {"scheduled", "running", "paused"}
    /\ campState' = [campState EXCEPT ![c] = "cancelled"]
    /\ UNCHANGED <<recipients, interval, emitted, sinceEmit, elapsed, msgs, cqueue,
                   rrPointer, devHealth, holding, failuresLeft>>
    /\ UNCHANGED nonDispVars

\* Cancel marks the unsent queued messages of the campaign as cancelled and
\* drains them; in-flight sends complete.
CancelCampaign(c) ==
    /\ campState[c] \in {"scheduled", "running", "paused"}
    /\ campState' = [campState EXCEPT ![c] = "cancelled"]
    /\ msgs' = [m \in DOMAIN msgs |->
                  IF CampaignOf(m) = c /\ msgs[m].state = "queued"
                  THEN [msgs[m] EXCEPT !.state = "cancelled"]
                  ELSE msgs[m]]
    /\ cqueue' = [cqueue EXCEPT ![c] = <<>>]
    /\ UNCHANGED <<recipients, interval, emitted, sinceEmit, elapsed, rrPointer,
                   devHealth, holding, failuresLeft>>
    /\ UNCHANGED nonDispVars

\* Cancellation observed at the queue-draw boundary: messages requeued after
\* the cancel are marked cancelled and drained.
DrainCancelled(c) ==
    /\ campState[c] = "cancelled"
    /\ cqueue[c] # <<>>
    /\ msgs' = [m \in DOMAIN msgs |->
                  IF CampaignOf(m) = c /\ msgs[m].state = "queued"
                  THEN [msgs[m] EXCEPT !.state = "cancelled"]
                  ELSE msgs[m]]
    /\ cqueue' = [cqueue EXCEPT ![c] = <<>>]
    /\ UNCHANGED <<campState, recipients, interval, emitted, sinceEmit, elapsed,
                   rrPointer, devHealth, holding, failuresLeft>>
    /\ UNCHANGED nonDispVars

\* Completion: every recipient's message was emitted and reached a terminal
\* state.
CompleteCampaign(c) ==
    /\ campState[c] = "running"
    /\ emitted[c] = recipients[c]
    /\ \A m \in DOMAIN msgs : CampaignOf(m) = c => msgs[m].state \in TerminalStates
    /\ campState' = [campState EXCEPT ![c] = "completed"]
    /\ UNCHANGED <<recipients, interval, emitted, sinceEmit, elapsed, msgs, cqueue,
                   rrPointer, devHealth, holding, failuresLeft>>
    /\ UNCHANGED nonDispVars

Started(c) == campState[c] \in {"running", "paused"}

\* One tick of time passes for every started campaign.
Tick ==
    /\ sinceEmit' = [c \in Campaigns |->
                       IF Started(c) /\ sinceEmit[c] < interval[c]
                       THEN sinceEmit[c] + 1 ELSE sinceEmit[c]]
    /\ elapsed' = [c \in Campaigns |->
                     IF Started(c) /\ emitted[c] < recipients[c]
                                   /\ elapsed[c] < recipients[c] * interval[c]
                     THEN elapsed[c] + 1 ELSE elapsed[c]]
    /\ <<sinceEmit', elapsed'>> # <<sinceEmit, elapsed>>
    /\ UNCHANGED <<campState, recipients, interval, emitted, msgs, cqueue, rrPointer,
                   devHealth, holding, failuresLeft>>
    /\ UNCHANGED nonDispVars

\* The dispatcher alone, with the device always available and backoff
\* delays that outlast the run.
NextFairness ==
    \/ \E d \in DeviceSet : Draw(d)
    \/ \E d \in DeviceSet, m \in DOMAIN msgs : InvokeAdapter(d, m)
    \/ \E d \in DeviceSet, m \in DOMAIN msgs : SendSucceeds(d, m)
    \/ \E d \in DeviceSet, m \in DOMAIN msgs : SendFails(d, m)
    \/ \E c \in Campaigns : CompleteCampaign(c)

\* The campaign runner and the dispatcher with time, the device always
\* available.
NextRate ==
    \/ \E d \in DeviceSet : Draw(d)
    \/ \E d \in DeviceSet, m \in DOMAIN msgs : InvokeAdapter(d, m)
    \/ \E d \in DeviceSet, m \in DOMAIN msgs : SendSucceeds(d, m)
    \/ \E c \in Campaigns : CompleteCampaign(c)
    \/ \E c \in Campaigns : StartCampaign(c)
    \/ \E c \in Campaigns : Emit(c)
    \/ Tick

NextDispatch ==
    \/ \E d \in DeviceSet : Draw(d)
    \/ \E d \in DeviceSet, m \in DOMAIN msgs : InvokeAdapter(d, m)
    \/ \E d \in DeviceSet, m \in DOMAIN msgs : SendSucceeds(d, m)
    \/ \E d \in DeviceSet, m \in DOMAIN msgs : SendFails(d, m)
    \/ \E d \in DeviceSet, m \in DOMAIN msgs : SendRejected(d, m)
    \/ \E m \in DOMAIN msgs : BackoffElapses(m)
    \/ \E d \in DeviceSet : HeartbeatTimeout(d)
    \/ \E d \in DeviceSet : Heartbeat(d)
    \/ \E c \in Campaigns : StartCampaign(c)
    \/ \E c \in Campaigns : Emit(c)
    \/ \E c \in Campaigns : PauseCampaign(c)
    \/ \E c \in Campaigns : ResumeCampaign(c)
    \/ \E c \in Campaigns : CancelCampaign(c)
    \/ \E c \in Campaigns : DrainCancelled(c)
    \/ \E c \in Campaigns : CompleteCampaign(c)

(***************************************************************************)
(* CampaignBuilder: the campaign form, validateCampaign and createCampaign *)
(***************************************************************************)

\* Longest name or message typed into the form.
MaxFormLen == 1

\* Most contacts an uploaded file holds.
MaxContacts == 2

\* Most requests a run sends.
MaxRequests == 2

FormTexts == UNION {[1..n -> {" ", "a"}] : n \in 0..MaxFormLen}

StartTimes == {"", "2030-01-01T10:00"}

EmptyForm == [name |-> <<>>, message |-> <<>>, contacts |-> 0, startTime |-> ""]

NoRequest == [status |-> "none"]

InitCb ==
    /\ campaign = EmptyForm
    /\ cbError = ""
    /\ isLoading = FALSE
    /\ cbRequest = NoRequest
    /\ cbSent = 0
    /\ cbCalls = FALSE

\* The user edits the form: name, message and start time inputs, and the
\* contacts of an uploaded file.
EditForm(field, value) ==
    /\ campaign' = [campaign EXCEPT ![field] = value]
    /\ UNCHANGED <<cbError, isLoading, cbRequest, cbSent, cbCalls>>
    /\ UNCHANGED nonCbVars

\* Mutant of validateCampaign: the contacts check is missing.
validateCampaignNoContactsCheck(form) ==
    IF Len(trim(form.name)) = 0 THEN "Campaign name is required"
    ELSE IF Len(trim(form.message)) = 0 THEN "Message is required"
    ELSE IF form.startTime = "" THEN "Start time is required"
    ELSE ""

\* validateCampaign (lines 152-159): the error, or "" for null
validateCampaign(form) ==
    IF Len(trim(form.name)) = 0 THEN "Campaign name is required"
    ELSE IF Len(trim(form.message)) = 0 THEN "Message is required"
    ELSE IF form.contacts = 0 THEN "At least one contact is required"
    ELSE IF form.startTime = "" THEN "Start time is required"
    ELSE ""

\* createCampaign (lines 161-183), called from the Create Campaign button,
\* which is disabled while isLoading (line 468): a failed validation is shown
\* and nothing is sent; otherwise the campaign is posted with status
\* 'scheduled'.
createCampaign ==
    /\ ~isLoading
    /\ cbSent < MaxRequests
    /\ cbCalls' = ~cbCalls
    /\ IF validateCampaign(campaign) # ""
       THEN /\ cbError' = validateCampaign(campaign)
            /\ UNCHANGED <<campaign, isLoading, cbRequest, cbSent>>
       ELSE /\ cbError' = ""
            /\ isLoading' = TRUE
            /\ cbSent' = cbSent + 1
            /\ cbRequest' = [name |-> campaign.name, message |-> campaign.message,
                             recipients |-> campaign.contacts,
                             startTime |-> campaign.startTime, status |-> "scheduled"]
            /\ UNCHANGED campaign
    /\ UNCHANGED nonCbVars

\* The response is ok (lines 185-200, 210-212): the form is reset.
ResponseOk ==
    /\ isLoading
    /\ isLoading' = FALSE
    /\ campaign' = EmptyForm
    /\ UNCHANGED <<cbError, cbRequest, cbSent, cbCalls>>
    /\ UNCHANGED nonCbVars

\* The response is an error, or fetch rejects (lines 201-212): the error is
\* shown and the form is kept.
ResponseFails ==
    /\ isLoading
    /\ isLoading' = FALSE
    /\ cbError' = "Failed to create campaign"
    /\ UNCHANGED <<campaign, cbRequest, cbSent, cbCalls>>
    /\ UNCHANGED nonCbVars

NextCb ==
    \/ \E t \in FormTexts : EditForm("name", t)
    \/ \E t \in FormTexts : EditForm("message", t)
    \/ \E n \in 0..MaxContacts : EditForm("contacts", n)
    \/ \E t \in StartTimes : EditForm("startTime", t)
    \/ createCampaign
    \/ ResponseOk
    \/ ResponseFails

(***************************************************************************)
(* DeviceDashboard: device list, WebSocket events and the test SMS dialog  *)
(***************************************************************************)

\* Devices the server knows.
NumDashDevices == 2

DashDevices == 1..NumDashDevices

\* Most test-SMS requests of a run.
MaxTestRequests == 2

DashStatuses == {"online", "offline", "busy", "error"}

InitDash ==
    /\ dashDevices = [d \in DashDevices |-> "absent"]
    /\ loading = TRUE
    /\ dashError = FALSE
    /\ selectedDevice = 0
    /\ testSMS = [phone |-> FALSE, message |-> FALSE]
    /\ tsTarget = 0
    /\ tsSent = 0

\* The device cards and the dialog are rendered once loading is over and no
\* error is shown (lines 114-136).
DashRendered == ~loading /\ ~dashError

\* fetchDevices resolves ok (lines 46-52, 58): the list is replaced by the
\* server's.
FetchDevicesOk(list) ==
    /\ dashDevices' = list
    /\ loading' = FALSE
    /\ UNCHANGED <<dashError, selectedDevice, testSMS, tsTarget, tsSent>>
    /\ UNCHANGED nonDashVars

\* fetchDevices fails (lines 53-58): the error is set and never cleared.
FetchDevicesFails ==
    /\ dashError' = TRUE
    /\ loading' = FALSE
    /\ UNCHANGED <<dashDevices, selectedDevice, testSMS, tsTarget, tsSent>>
    /\ UNCHANGED nonDashVars

\* ws.onmessage deviceStatusUpdate -> updateDeviceStatus (lines 33-34, 61-67):
\* a listed device takes the new status, an unlisted one is not added.
OnDeviceStatusUpdate(d, st) ==
    /\ dashDevices' = [dashDevices EXCEPT ![d] = IF @ = "absent" THEN @ ELSE st]
    /\ UNCHANGED <<loading, dashError, selectedDevice, testSMS, tsTarget, tsSent>>
    /\ UNCHANGED nonDashVars

\* ws.onmessage deviceRemoved (lines 37-39)
OnDeviceRemoved(d) ==
    /\ dashDevices' = [dashDevices EXCEPT ![d] = "absent"]
    /\ UNCHANGED <<loading, dashError, selectedDevice, testSMS, tsTarget, tsSent>>
    /\ UNCHANGED nonDashVars

\* The Test SMS button of a device card (lines 207-214), disabled unless the
\* device's status is online.
OpenTestDialog(d) ==
    /\ DashRendered
    /\ dashDevices[d] = "online"
    /\ selectedDevice' = d
    /\ UNCHANGED <<dashDevices, loading, dashError, testSMS, tsTarget, tsSent>>
    /\ UNCHANGED nonDashVars

\* Cancel, the close button or a click on the overlay (lines 226-235, 263-268)
CloseTestDialog ==
    /\ DashRendered
    /\ selectedDevice # 0
    /\ selectedDevice' = 0
    /\ UNCHANGED <<dashDevices, loading, dashError, testSMS, tsTarget, tsSent>>
    /\ UNCHANGED nonDashVars

\* The phone and message inputs of the dialog (lines 241-259)
EditTestSMS(field, filled) ==
    /\ DashRendered
    /\ selectedDevice # 0
    /\ testSMS' = [testSMS EXCEPT ![field] = filled]
    /\ UNCHANGED <<dashDevices, loading, dashError, selectedDevice, tsTarget, tsSent>>
    /\ UNCHANGED nonDashVars

\* sendTestSMS(selectedDevice.id) (lines 69-83, 269-274): with an empty input
\* only an alert is shown; otherwise the request is sent for the device the
\* dialog was opened on.
sendTestSMS ==
    /\ DashRendered
    /\ selectedDevice # 0
    /\ tsSent < MaxTestRequests
    /\ IF ~testSMS.phone \/ ~testSMS.message
       THEN UNCHANGED <<tsTarget, tsSent>>
       ELSE /\ tsTarget' = selectedDevice
            /\ tsSent' = tsSent + 1
    /\ UNCHANGED <<dashDevices, loading, dashError, selectedDevice, testSMS>>
    /\ UNCHANGED nonDashVars

\* The response of a test-SMS request is ok (lines 85-87): the inputs are
\* cleared.
TestSMSResponseOk ==
    /\ tsSent > 0
    /\ testSMS' = [phone |-> FALSE, message |-> FALSE]
    /\ UNCHANGED <<dashDevices, loading, dashError, selectedDevice, tsTarget, tsSent>>
    /\ UNCHANGED nonDashVars

NextDash ==
    \/ \E list \in [DashDevices -> DashStatuses \cup {"absent"}] : FetchDevicesOk(list)
    \/ FetchDevicesFails
    \/ \E d \in DashDevices, st \in DashStatuses : OnDeviceStatusUpdate(d, st)
    \/ \E d \in DashDevices : OnDeviceRemoved(d)
    \/ \E d \in DashDevices : OpenTestDialog(d)
    \/ CloseTestDialog
    \/ \E field \in {"phone", "message"}, filled \in BOOLEAN : EditTestSMS(field, filled)
    \/ sendTestSMS
    \/ TestSMSResponseOk

(***************************************************************************)
(* DeviceStatusService: getDeviceStatus and its cache                      *)
(***************************************************************************)

\* Concurrent callers of getDeviceStatus.
NumStatusCalls == 2

StatusCalls == 1..NumStatusCalls

\* Device queries of a run.
MaxQueries == 2

\* The clock advances in steps of this many ms, this many times.
DssTickMs == 5000

MaxClockTicks == 2

\* private updateInterval: number = 10000 (line 18)
DefaultUpdateInterval == 10000

\* Arguments of setUpdateInterval
UpdateIntervals == {0, DssTickMs, DefaultUpdateInterval}

\* The clock starts long after new Date(0).
InitDss ==
    /\ dsNow = DefaultUpdateInterval
    /\ lastUpdate = 0
    /\ cachedStatus = 0
    /\ updateInterval = DefaultUpdateInterval
    /\ dsPc = [c \in StatusCalls |-> "idle"]
    /\ dsStart = [c \in StatusCalls |-> 0]
    /\ dsQuery = [c \in StatusCalls |-> 0]
    /\ dsResult = [c \in StatusCalls |-> 0]
    /\ dsQueries = 0
    /\ dsClearMark = -1
    /\ dsMark = [c \in StatusCalls |-> -1]

\* Mutant of CacheIsRecent: a status exactly updateInterval old still counts
\* as recent.
CacheIsRecentInclusive(now) ==
    cachedStatus # 0 /\ now - lastUpdate <= updateInterval

\* this.cachedStatus && timeSinceUpdate < this.updateInterval (lines 22-25)
CacheIsRecent(now) ==
    cachedStatus # 0 /\ now - lastUpdate < updateInterval

\* getDeviceStatus is called (lines 20-30): a recent cached status is returned
\* at once, otherwise updateDeviceStatus queries the device.
getDeviceStatus(c) ==
    /\ dsPc[c] = "idle"
    /\ dsStart' = [dsStart EXCEPT ![c] = dsNow]
    /\ dsMark' = [dsMark EXCEPT ![c] = dsClearMark]
    /\ dsClearMark' = -1
    /\ IF CacheIsRecent(dsNow)
       THEN /\ dsPc' = [dsPc EXCEPT ![c] = "returned"]
            /\ dsResult' = [dsResult EXCEPT ![c] = cachedStatus]
            /\ UNCHANGED <<dsQuery, dsQueries>>
       ELSE /\ dsQueries < MaxQueries
            /\ dsPc' = [dsPc EXCEPT ![c] = "querying"]
            /\ dsQueries' = dsQueries + 1
            /\ dsQuery' = [dsQuery EXCEPT ![c] = dsQueries + 1]
            /\ UNCHANGED dsResult
    /\ UNCHANGED <<dsNow, lastUpdate, cachedStatus, updateInterval>>
    /\ UNCHANGED nonDssVars

\* updateDeviceStatus resolves (lines 30-34): the status is cached with the
\* call's now and returned.
QueryResolves(c) ==
    /\ dsPc[c] = "querying"
    /\ cachedStatus' = dsQuery[c]
    /\ lastUpdate' = dsStart[c]
    /\ dsPc' = [dsPc EXCEPT ![c] = "returned"]
    /\ dsResult' = [dsResult EXCEPT ![c] = dsQuery[c]]
    /\ UNCHANGED <<dsNow, updateInterval, dsStart, dsQuery, dsQueries, dsClearMark, dsMark>>
    /\ UNCHANGED nonDssVars

\* The caller has taken the returned status.
StatusCallEnds(c) ==
    /\ dsPc[c] = "returned"
    /\ dsPc' = [dsPc EXCEPT ![c] = "idle"]
    /\ dsStart' = [dsStart EXCEPT ![c] = 0]
    /\ dsQuery' = [dsQuery EXCEPT ![c] = 0]
    /\ dsResult' = [dsResult EXCEPT ![c] = 0]
    /\ dsMark' = [dsMark EXCEPT ![c] = -1]
    /\ UNCHANGED <<dsNow, lastUpdate, cachedStatus, updateInterval, dsQueries, dsClearMark>>
    /\ UNCHANGED nonDssVars

\* clearCache (lines 234-238)
clearCache ==
    /\ cachedStatus' = 0
    /\ lastUpdate' = 0
    /\ dsClearMark' = dsQueries
    /\ UNCHANGED <<dsNow, updateInterval, dsPc, dsStart, dsQuery, dsResult, dsQueries, dsMark>>
    /\ UNCHANGED nonDssVars

\* setUpdateInterval (lines 240-243)
setUpdateInterval(intervalMs) ==
    /\ updateInterval' = intervalMs
    /\ UNCHANGED <<dsNow, lastUpdate, cachedStatus, dsPc, dsStart, dsQuery, dsResult,
                   dsQueries, dsClearMark, dsMark>>
    /\ UNCHANGED nonDssVars

\* Time passes.
DssTick ==
    /\ dsNow < DefaultUpdateInterval + MaxClockTicks * DssTickMs
    /\ dsNow' = dsNow + DssTickMs
    /\ UNCHANGED <<lastUpdate, cachedStatus, updateInterval, dsPc, dsStart, dsQuery,
                   dsResult, dsQueries, dsClearMark, dsMark>>
    /\ UNCHANGED nonDssVars

NextDss ==
    \/ \E c \in StatusCalls : getDeviceStatus(c)
    \/ \E c \in StatusCalls : QueryResolves(c)
    \/ \E c \in StatusCalls : StatusCallEnds(c)
    \/ clearCache
    \/ \E intervalMs \in UpdateIntervals : setUpdateInterval(intervalMs)
    \/ DssTick

(***************************************************************************)
(* Polling bridge: SMSBridgeApp.tsx, connectToServer and message polling   *)
(***************************************************************************)

\* connectToServer calls explored that are not made by a retry timer
\* (initializeApp, the NetInfo listener, saveServerUrl).
MaxConnectCalls == 3

\* Message fetches explored.
MaxPollFetches == 2

\* The isConnected that the functions registered by the mount effect close
\* over: useState(false) of the first render (lines 39, 45-52). initializeApp
\* and the NetInfo listener are created there and are never replaced.
MountIsConnected == FALSE

InitLink ==
    /\ appConnected = FALSE
    /\ appStarted = FALSE
    /\ connectCalls = [b \in BOOLEAN |-> 0]
    /\ retryTimers = [b \in BOOLEAN |-> 0]
    /\ pollIntervals = [b \in BOOLEAN |-> 0]
    /\ pollFetches = 0
    /\ connectStarted = 0
    /\ linkRetried = FALSE
    /\ appIsLoading = FALSE

\* connectToServer() is called from a render whose isConnected is b:
\* setIsLoading(true), the register request is sent and awaited (lines
\* 104-120).
connectToServer(b) ==
    /\ appIsLoading' = TRUE
    /\ connectCalls' = [connectCalls EXCEPT ![b] = connectCalls[b] + 1]

\* startMessagePolling (lines 143-165) of a render whose isConnected is b: a
\* new interval is created; its handle is returned and dropped by the caller.
startMessagePolling(b) ==
    pollIntervals' = [pollIntervals EXCEPT ![b] = pollIntervals[b] + 1]

\* initializeApp (lines 54-77) reaches connectToServer().
InitializeApp ==
    /\ ~appStarted
    /\ appStarted' = TRUE
    /\ connectStarted < MaxConnectCalls
    /\ connectStarted' = connectStarted + 1
    /\ connectToServer(MountIsConnected)
    /\ UNCHANGED <<appConnected, retryTimers, pollIntervals, pollFetches, linkRetried>>
    /\ UNCHANGED nonLinkVars

\* The NetInfo listener (lines 92-99) receives a state.
OnNetInfoEvent(stateIsConnected) ==
    /\ IF stateIsConnected /\ ~MountIsConnected
       THEN /\ connectStarted < MaxConnectCalls
            /\ connectStarted' = connectStarted + 1
            /\ connectToServer(MountIsConnected)
            /\ UNCHANGED appConnected
       ELSE IF ~stateIsConnected /\ MountIsConnected
            THEN /\ appConnected' = FALSE
                 /\ UNCHANGED <<connectStarted, connectCalls, appIsLoading>>
            ELSE UNCHANGED <<appConnected, connectStarted, connectCalls, appIsLoading>>
    /\ UNCHANGED <<appStarted, retryTimers, pollIntervals, pollFetches, linkRetried>>
    /\ UNCHANGED nonLinkVars

\* saveServerUrl (lines 245-252), pressed in the current render, where the
\* button is disabled while isLoading (line 305): connectToServer() of that
\* render.
saveServerUrl ==
    /\ ~appIsLoading
    /\ connectStarted < MaxConnectCalls
    /\ connectStarted' = connectStarted + 1
    /\ connectToServer(appConnected)
    /\ UNCHANGED <<appConnected, appStarted, retryTimers, pollIntervals, pollFetches, linkRetried>>
    /\ UNCHANGED nonLinkVars

\* The register fetch answers OK (lines 122-127, 138-140):
\* setIsConnected(true), startMessagePolling() and setIsLoading(false).
RegisterOk(b) ==
    /\ connectCalls[b] > 0
    /\ appIsLoading' = FALSE
    /\ connectCalls' = [connectCalls EXCEPT ![b] = connectCalls[b] - 1]
    /\ appConnected' = TRUE
    /\ startMessagePolling(b)
    /\ UNCHANGED <<appStarted, retryTimers, pollFetches, connectStarted, linkRetried>>
    /\ UNCHANGED nonLinkVars

\* Mutant of RegisterFails: the catch block arms no retry timer.
RegisterFailsNoRetry(b) ==
    /\ connectCalls[b] > 0
    /\ appIsLoading' = FALSE
    /\ connectCalls' = [connectCalls EXCEPT ![b] = connectCalls[b] - 1]
    /\ appConnected' = FALSE
    /\ UNCHANGED retryTimers
    /\ UNCHANGED <<appStarted, pollIntervals, pollFetches, connectStarted, linkRetried>>
    /\ UNCHANGED nonLinkVars

\* The register fetch rejects or answers non-OK (lines 128-140): catch block,
\* setIsConnected(false) and setTimeout(connectToServer, 30000), then
\* setIsLoading(false).
RegisterFails(b) ==
    /\ connectCalls[b] > 0
    /\ appIsLoading' = FALSE
    /\ connectCalls' = [connectCalls EXCEPT ![b] = connectCalls[b] - 1]
    /\ appConnected' = FALSE
    /\ retryTimers' = [retryTimers EXCEPT ![b] = retryTimers[b] + 1]
    /\ UNCHANGED <<appStarted, pollIntervals, pollFetches, connectStarted, linkRetried>>
    /\ UNCHANGED nonLinkVars

\* A retry timer fires (line 137): the connectToServer of the render that
\* armed it runs again.
RetryTimerFires(b) ==
    /\ retryTimers[b] > 0
    /\ retryTimers' = [retryTimers EXCEPT ![b] = retryTimers[b] - 1]
    /\ connectToServer(b)
    /\ linkRetried' = TRUE
    /\ UNCHANGED <<appConnected, appStarted, pollIntervals, pollFetches, connectStarted>>
    /\ UNCHANGED nonLinkVars

\* A polling interval ticks (lines 144-162): with the isConnected of its
\* closure false it clears itself, otherwise it fetches the device's
\* messages.
PollTick(b) ==
    /\ pollIntervals[b] > 0
    /\ IF ~b
       THEN /\ pollIntervals' = [pollIntervals EXCEPT ![b] = pollIntervals[b] - 1]
            /\ UNCHANGED pollFetches
       ELSE /\ pollFetches < MaxPollFetches
            /\ pollFetches' = pollFetches + 1
            /\ UNCHANGED pollIntervals
    /\ UNCHANGED <<appConnected, appStarted, connectCalls, retryTimers, connectStarted, linkRetried,
                   appIsLoading>>
    /\ UNCHANGED nonLinkVars

NextLink ==
    \/ InitializeApp
    \/ \E stateIsConnected \in BOOLEAN : OnNetInfoEvent(stateIsConnected)
    \/ saveServerUrl
    \/ \E b \in BOOLEAN : RegisterOk(b)
    \/ \E b \in BOOLEAN : RegisterFails(b)
    \/ \E b \in BOOLEAN : RetryTimerFires(b)
    \/ \E b \in BOOLEAN : PollTick(b)

(***************************************************************************)
(* SMSService.sendLongSMS                                                  *)
(***************************************************************************)

\* Largest number of parts of the messages explored.
MaxLongParts == 3

\* A message of n characters, every k-th of them a space.
Filled(n, k) == [i \in 1..n |-> IF i % k = 0 THEN " " ELSE "a"]

\* A message of n characters followed by m spaces.
Padded(n, m) == [i \in 1..(n + m) |-> IF i <= n THEN "a" ELSE " "]

\* Messages handed to sendLongSMS: empty, short, exactly one segment, one
\* character more, several segments, and a message whose last part is blank.
LongMessages ==
    {<<>>, Filled(1, 2), Filled(SegmentSize, 7), Filled(SegmentSize + 1, 7), LongMessage,
     Padded(SegmentSize, 3)}
    \cup {Filled(n * SegmentSize, 7) : n \in 2..MaxLongParts}
    \cup {Filled((n - 1) * SegmentSize + 1, 7) : n \in 2..MaxLongParts}

\* Phone numbers handed to sendLongSMS: one that passes isValidPhoneNumber
\* and one that does not.
LongPhones == {<<"+", "1", "5", "5", "5", "0", "1", "0", "0">>, <<"1", "2">>}

InitLong ==
    /\ lsPlatform = "android"
    /\ lsPhone = <<>>
    /\ lsMessage = <<>>
    /\ lsParts = <<>>
    /\ lsI = 0
    /\ lsPc = "idle"
    /\ lsHanded = <<>>
    /\ lsResults = <<>>

RECURSIVE DecimalDigits(_)
\* The decimal digits of a number, as a template literal prints it.
DecimalDigits(n) ==
    IF n < 10 THEN <<ToString(n)>> ELSE DecimalDigits(n \div 10) \o <<ToString(n % 10)>>

\* partMessage (line 920):
\* parts.length > 1 ? `(${i + 1}/${parts.length}) ${part}` : part
partMessage(parts, i) ==
    IF Len(parts) > 1
    THEN <<"(">> \o DecimalDigits(i + 1) \o <<"/">> \o DecimalDigits(Len(parts))
         \o <<")", " ">> \o parts[i + 1]
    ELSE parts[i + 1]

\* results.push(result) and the end of the loop body (lines 923-928): the
\* 1 s delay is awaited unless this was the last part, and after the last
\* part the results are returned.
pushResult(success) ==
    /\ lsResults' = Append(lsResults, [part |-> lsI, success |-> success])
    /\ lsPc' = IF lsI < Len(lsParts) - 1 THEN "delay" ELSE "done"

\* sendLongSMS(phoneNumber, message) is called (lines 914-918): the message
\* is split at the default segment size and the loop starts.
sendLongSMS(platform, phoneNumber, message) ==
    /\ lsPc \in {"idle", "done"}
    /\ lsPlatform' = platform
    /\ lsPhone' = phoneNumber
    /\ lsMessage' = message
    /\ lsParts' = splitLongMessage(message, SegmentSize)
    /\ lsI' = 0
    /\ lsPc' = "call"
    /\ lsHanded' = <<>>
    /\ lsResults' = <<>>
    /\ UNCHANGED nonLongVars

\* The loop body calls this.sendSMS(phoneNumber, partMessage) (lines 919-922,
\* 792-819): a failed validation is the result, otherwise
\* nativeModule.sendSMS(cleanNumber, message.trim()) is called and awaited.
LongSendPart ==
    /\ lsPc = "call"
    /\ IF svcValidate(lsPlatform, lsPhone, partMessage(lsParts, lsI)) = "ok"
       THEN /\ lsHanded' = Append(lsHanded,
                                  [part |-> lsI, text |-> trim(partMessage(lsParts, lsI))])
            /\ lsPc' = "native"
            /\ UNCHANGED lsResults
       ELSE /\ pushResult(FALSE)
            /\ UNCHANGED lsHanded
    /\ UNCHANGED <<lsPlatform, lsPhone, lsMessage, lsParts, lsI>>
    /\ UNCHANGED nonLongVars

\* nativeModule.sendSMS resolves (lines 819-824): success: true is pushed.
LongNativeResolves ==
    /\ lsPc = "native"
    /\ pushResult(TRUE)
    /\ UNCHANGED <<lsPlatform, lsPhone, lsMessage, lsParts, lsI, lsHanded>>
    /\ UNCHANGED nonLongVars

\* nativeModule.sendSMS rejects (lines 825-839): success: false is pushed and
\* the loop goes on.
LongNativeRejects ==
    /\ lsPc = "native"
    /\ pushResult(FALSE)
    /\ UNCHANGED <<lsPlatform, lsPhone, lsMessage, lsParts, lsI, lsHanded>>
    /\ UNCHANGED nonLongVars

\* The delay between two parts elapses (lines 926-928, 918): i++
LongDelayElapses ==
    /\ lsPc = "delay"
    /\ lsI' = lsI + 1
    /\ lsPc' = "call"
    /\ UNCHANGED <<lsPlatform, lsPhone, lsMessage, lsParts, lsHanded, lsResults>>
    /\ UNCHANGED nonLongVars

NextLong ==
    \/ \E platform \in Platforms, phoneNumber \in LongPhones, message \in LongMessages :
          sendLongSMS(platform, phoneNumber, message)
    \/ LongSendPart
    \/ LongNativeResolves
    \/ LongNativeRejects
    \/ LongDelayElapses

(***************************************************************************)
(* DeviceDashboard.tsx: the devices list under WebSocket events            *)
(***************************************************************************)

\* Longest device list explored.
MaxListLen == 2

\* Ids of the devices in server lists and events.
ListIds == {"d1", "d2"}

\* Device objects: id and status always, battery optional (lines 4-15).
ListDevices ==
    [{"id", "status"} -> ListIds \cup {"online", "offline"}]
    \cup [{"id", "status", "battery"} -> ListIds \cup {"online", "offline", "low"}]

\* A Device as the server sends it: an id, a status, and a battery level or
\* none.
WellFormedDevice(dev) ==
    /\ dev["id"] \in ListIds
    /\ dev["status"] \in {"online", "offline"}
    /\ "battery" \in DOMAIN dev => dev["battery"] = "low"

ServerDevices == {dev \in ListDevices : WellFormedDevice(dev)}

\* Lists the server may answer, duplicates of an id included.
ServerLists == UNION {[1..n -> ServerDevices] : n \in 0..MaxListLen}

\* data.device of a deviceStatusUpdate: Partial<Device> & { id } (line 61).
DeviceUpdates ==
    {upd \in [{"id"} -> ListIds]
              \cup [{"id", "status"} -> ListIds \cup {"online", "offline"}]
              \cup [{"id", "battery"} -> ListIds \cup {"low"}]
              \cup [{"id", "status", "battery"} -> ListIds \cup {"online", "offline", "low"}] :
        /\ upd["id"] \in ListIds
        /\ "status" \in DOMAIN upd => upd["status"] \in {"online", "offline"}
        /\ "battery" \in DOMAIN upd => upd["battery"] = "low"}

NoEvent == [type |-> "none"]

InitDevList ==
    /\ deviceList = <<>>
    /\ dlEvent = NoEvent
    /\ dlBefore = <<>>

\* Object spread { ...a, ...b }
Spread(a, b) ==
    [f \in DOMAIN a \cup DOMAIN b |-> IF f \in DOMAIN b THEN b[f] ELSE a[f]]

\* Mutant of mapDeviceStatus: the matching entry is replaced by the received
\* object instead of merged with it.
mapDeviceStatusReplaces(prev, updatedDevice) ==
    [i \in 1..Len(prev) |->
        IF prev[i]["id"] = updatedDevice["id"] THEN updatedDevice ELSE prev[i]]

\* updateDeviceStatus's updater (lines 62-66): prev.map(device =>
\* device.id === updatedDevice.id ? { ...device, ...updatedDevice } : device)
mapDeviceStatus(prev, updatedDevice) ==
    [i \in 1..Len(prev) |->
        IF prev[i]["id"] = updatedDevice["id"]
        THEN Spread(prev[i], updatedDevice)
        ELSE prev[i]]

\* The deviceRemoved updater (line 38): prev.filter(d => d.id !== data.deviceId)
filterRemoved(prev, deviceId) ==
    SelectSeq(prev, LAMBDA d : d["id"] # deviceId)

\* fetchDevices resolves ok (lines 46-50): setDevices(data.devices || []);
\* the list before it is not recorded.
ListFetched(list) ==
    /\ deviceList' = list
    /\ dlEvent' = [type |-> "fetched"]
    /\ dlBefore' = <<>>
    /\ UNCHANGED nonDevListVars

\* ws.onmessage with type deviceStatusUpdate (lines 33-34, 61-67)
ListStatusUpdate(updatedDevice) ==
    /\ deviceList' = mapDeviceStatus(deviceList, updatedDevice)
    /\ dlEvent' = [type |-> "deviceStatusUpdate", device |-> updatedDevice]
    /\ dlBefore' = deviceList
    /\ UNCHANGED nonDevListVars

\* ws.onmessage with type deviceRemoved (lines 37-39)
ListDeviceRemoved(deviceId) ==
    /\ deviceList' = filterRemoved(deviceList, deviceId)
    /\ dlEvent' = [type |-> "deviceRemoved", deviceId |-> deviceId]
    /\ dlBefore' = deviceList
    /\ UNCHANGED nonDevListVars

NextDevList ==
    \/ \E list \in ServerLists : ListFetched(list)
    \/ \E updatedDevice \in DeviceUpdates : ListStatusUpdate(updatedDevice)
    \/ \E deviceId \in ListIds : ListDeviceRemoved(deviceId)

(***************************************************************************)
(* Bridge app: the activity log (part_003, SMSBridgeApp.tsx)               *)
(***************************************************************************)

\* addLog calls explored.
MaxLogCalls == 52

\* Entries of the previous log that addLog keeps: prev.slice(0, 49)
KeptLogs == 49

InitLog ==
    /\ logs = <<>>
    /\ logCalls = 0
    /\ logDropped = FALSE

\* Array.prototype.slice(start, end) for 0 <= start <= end
slice(arr, start, end) == SubSeq(arr, Min(start, Len(arr)) + 1, Min(end, Len(arr)))

\* Mutant of prependLog: the previous log is kept whole.
prependLogKeepsAll(prev, logEntry) == <<logEntry>> \o prev

\* The updater of addLog (part_003 line 266, SMSBridgeApp.tsx line 242):
\* prev => [logEntry, ...prev.slice(0, 49)]
prependLog(prev, logEntry) == <<logEntry>> \o slice(prev, 0, KeptLogs)

\* addLog(message) (part_003 lines 263-267): the entry carries the time of
\* the call, here the call's number.
addLog ==
    /\ logCalls < MaxLogCalls
    /\ logCalls' = logCalls + 1
    /\ logs' = prependLog(logs, logCalls + 1)
    /\ logDropped' = (Len(logs) > KeptLogs)
    /\ UNCHANGED nonLogVars

\* clearLogs (part_003 lines 269-271): setLogs([])
clearLogs ==
    /\ logs # <<>>
    /\ logs' = <<>>
    /\ logDropped' = FALSE
    /\ UNCHANGED logCalls
    /\ UNCHANGED nonLogVars

NextLog == addLog \/ clearLogs

(***************************************************************************)
(* Specifications                                                          *)
(***************************************************************************)

Init == InitUsb /\ InitPoll /\ InitSplit /\ InitNative /\ InitWs /\ InitSvc /\ InitReg /\ InitDispatch /\ InitCb /\ InitDash /\ InitDss /\ InitLink /\ InitLong /\ InitDevList /\ InitLog

\* Initial states of the specification of splitLongMessage: its arguments
\* are drawn from the input sets.
InitSplitCall == InitUsb /\ InitPoll /\ InitSplitInputs /\ InitNative /\ InitWs /\ InitSvc /\ InitReg /\ InitDispatch /\ InitCb /\ InitDash /\ InitDss /\ InitLink /\ InitLong /\ InitDevList /\ InitLog

SpecUsb == Init /\ [][NextUsb]_vars

\* Whatever the code awaits other than a modem's answer settles, and every
\* write to the modem completes; whether the modem answers is left open.
FairSpecUsb ==
    /\ SpecUsb
    /\ WF_vars(UsbDeviceActs)
    /\ \A c \in Senders :
          WF_vars(SendTransferOutResolve(c) \/ SendTransferOutReject(c))

SpecPoll == Init /\ [][NextPoll]_vars

SpecSplit == InitSplitCall /\ [][NextSplit]_vars

SpecNative == Init /\ [][NextNative]_vars

SpecWs == Init /\ [][NextWs]_vars

SpecSvc == Init /\ [][NextSvc]_vars

SpecReg == Init /\ [][NextReg]_vars

SpecDispatch == Init /\ [][NextDispatch]_vars

InitOthers ==
    InitUsb /\ InitPoll /\ InitSplit /\ InitNative /\ InitWs /\ InitSvc /\ InitReg /\ InitCb /\ InitDash /\ InitDss /\ InitLink /\ InitLong /\ InitDevList /\ InitLog

SpecCb == Init /\ [][NextCb]_vars


SpecLog == Init /\ [][NextLog]_vars


SpecDevList == Init /\ [][NextDevList]_vars


SpecLong == Init /\ [][NextLong]_vars


SpecLink == Init /\ [][NextLink]_vars

\* Retry timers fire, every register request is answered, and the server
\* answers OK again and again while requests keep arriving.
FairSpecLink ==
    /\ SpecLink
    /\ WF_vars(\E b \in BOOLEAN : RetryTimerFires(b))
    /\ WF_vars(\E b \in BOOLEAN : RegisterOk(b) \/ RegisterFails(b))
    /\ SF_vars(\E b \in BOOLEAN : RegisterOk(b))

SpecDss == Init /\ [][NextDss]_vars

SpecDash == Init /\ [][NextDash]_vars

InitFairness == InitOthers /\ InitFairnessScenario

SpecFairness == InitFairness /\ [][NextFairness]_vars

InitRate == InitOthers /\ InitRateScenario

SpecRate == InitRate /\ [][NextRate]_vars

\* Time passes, due messages are emitted, the dispatcher draws, the adapter
\* is invoked and answers.
FairSpecRate ==
    /\ SpecRate
    /\ WF_vars(Tick)
    /\ WF_vars(\E c \in Campaigns : StartCampaign(c))
    /\ WF_vars(\E c \in Campaigns : Emit(c))
    /\ WF_vars(\E d \in DeviceSet : Draw(d))
    /\ WF_vars(\E d \in DeviceSet, m \in DOMAIN msgs : InvokeAdapter(d, m))
    /\ WF_vars(\E d \in DeviceSet, m \in DOMAIN msgs : SendSucceeds(d, m))

\* Timers fire, pending socket events are delivered, the local send returns,
\* and the server accepts a connection again and again.
FairSpecWs ==
    /\ SpecWs
    /\ WF_vars(NextWs)
    /\ WF_vars(ReconnectTimerFiresConnected \/ \E s \in Sockets : ReconnectTimerFires(s))
    /\ \A r \in Requests :
          WF_vars(\E result \in {"success", "failure"} : SendSMSReturns(r, result))
    /\ SF_vars(\E s \in Sockets : SocketOpens(s))

\* The connection alone: the socket and timer events of NetworkService, with
\* no send-sms request arriving.
NextReconnect ==
    \/ \E s \in Sockets : StartBridge(s)
    \/ \E s \in Sockets : SocketOpens(s)
    \/ \E s \in Sockets : SocketErrors(s)
    \/ \E s \in Sockets : SocketCloses(s)
    \/ \E s \in Sockets : ConnectTimeoutFires(s)
    \/ ReconnectTimerFiresConnected
    \/ \E s \in Sockets : ReconnectTimerFires(s)

\* The connection with disconnect(): the socket and timer events, and the
\* bridge switch turned off and on again.
NextConn ==
    \/ \E s \in Sockets : StartBridge(s)
    \/ \E s \in Sockets : SocketOpens(s)
    \/ \E s \in Sockets : SocketErrors(s)
    \/ \E s \in Sockets : SocketCloses(s)
    \/ \E s \in Sockets : ConnectTimeoutFires(s)
    \/ ReconnectTimerFiresConnected
    \/ \E s \in Sockets : ReconnectTimerFires(s)
    \/ Disconnect

SpecConn == Init /\ [][NextConn]_vars

\* Timers fire, the server accepts a connection again and again, and the
\* events of each socket are delivered: a socket that failed is closed, and
\* an armed connection timeout fires.
FairSpecReconnect ==
    /\ Init /\ [][NextReconnect]_vars
    /\ WF_vars(NextReconnect)
    /\ WF_vars(ReconnectTimerFiresConnected \/ \E s \in Sockets : ReconnectTimerFires(s))
    /\ SF_vars(\E s \in Sockets : SocketOpens(s))
    /\ \A s \in Sockets : WF_vars(sock[s] = "closing" /\ SocketCloses(s))
    /\ \A s \in Sockets : WF_vars(ConnectTimeoutFires(s))

(***************************************************************************)
(* Claims about WebUSBSMS                                                  *)
(***************************************************************************)

\* C1: in every reachable state the number of sends in flight on the device
\* (messageQueue) is at most the device's concurrency limit.
C1_InFlightWithinLimit == messageQueue <= ConcurrencyLimit

\* C5: every sendSMS call that has started eventually resolves to a terminal
\* outcome (sent or failed), also when the device never answers a command.
C5_SendEventuallyResolves ==
    \A c \in Senders :
        (sendPc[c] \in {"out", "in"}) ~> (sendPc[c] \in {"sent", "failed"})

C7_NoOfflineToBusy == [][~(status = "offline" /\ status' = "busy")]_vars

(***************************************************************************)
(* Claims about the polling bridge's message queue                         *)
(***************************************************************************)

TerminalStatus == {"sent", "failed"}

\* C3: once an entry of the message queue has a terminal status (sent or
\* failed), no later report changes it: the first terminal report wins.
C3_FirstTerminalReportWins ==
    [][\A i \in 1..Len(appQueue) :
          appQueue[i].status \in TerminalStatus
              => appQueue'[i].status = appQueue[i].status]_vars

\* C4: applying the same status report twice leaves the queue as it is after
\* the first application, for every id and outcome.
C4_UpdateIdempotent ==
    \A m \in MsgIds \cup NativeEventIds, st \in TerminalStatus :
        updateMessageStatus(updateMessageStatus(appQueue, m, st), m, st)
            = updateMessageStatus(appQueue, m, st)

\* C4 witness: the queue holds two entries of one message, both set to sent by
\* one report, next to a pending entry of another message.
C4_Witness ==
    \E i, j, k \in 1..Len(appQueue) :
        /\ i # j
        /\ appQueue[i].id = appQueue[j].id
        /\ appQueue[i].status = "sent" /\ appQueue[j].status = "sent"
        /\ appQueue[k].id # appQueue[i].id /\ appQueue[k].status = "pending"

(***************************************************************************)
(* Claims about multi-part messages                                        *)
(***************************************************************************)

AllPartsOk == \A i \in 1..natParts : partResult[i] = "ok"

\* C2: a multi-part message is reported as sent if and only if every part was
\* acknowledged as sent; if any part fails the overall outcome is failed,
\* never sent.
C2_SentIffEveryPartAcked ==
    /\ (natParts > 1 /\ \E i \in 1..natParts : partResult[i] = "error")
          => smsResult = "failure"
    /\ (natParts > 1 /\ NoPartPending) => (smsResult = "success" <=> AllPartsOk)

RECURSIVE Concat(_)
Concat(parts) == IF parts = <<>> THEN <<>> ELSE Head(parts) \o Concat(Tail(parts))

\* C8: for every message m and segment size n >= 1 the parts of
\* splitLongMessage(m, n), concatenated in order, give m; a message of length
\* <= n yields exactly <<m>>; otherwise every part has length in 1..n and there
\* are ceil(length(m)/n) parts; a 200-character message with n = 160 yields 2.
C8_SplitParts ==
    splitPc = "done" =>
        /\ Concat(splitParts) = splitMessage
        /\ Len(splitMessage) <= splitMax => splitParts = <<splitMessage>>
        /\ Len(splitMessage) > splitMax =>
              /\ \A i \in 1..Len(splitParts) :
                    Len(splitParts[i]) >= 1 /\ Len(splitParts[i]) <= splitMax
              /\ Len(splitParts) = (Len(splitMessage) + splitMax - 1) \div splitMax
        /\ (Len(splitMessage) = 200 /\ splitMax = 160) => Len(splitParts) = 2

\* C8 witness: the 200-character message has been split at 160 into a part of
\* 160 and a part of 40 characters.
C8_Witness ==
    /\ splitPc = "done"
    /\ Len(splitMessage) = 200 /\ splitMax = 160
    /\ Len(splitParts) = 2
    /\ Len(splitParts[1]) = 160 /\ Len(splitParts[2]) = 40

(***************************************************************************)
(* Claims about the WebSocket bridge                                       *)
(***************************************************************************)

Range(f) == {f[i] : i \in DOMAIN f}

\* C9: for every send-sms request the bridge emits at most one terminal
\* report, never both sms-sent and sms-failed; sms-sent only if the local
\* send succeeded, sms-failed only if it failed or threw.
C9_OneTerminalReport ==
    \A r \in Requests :
        /\ Len(reports[r]) <= 1
        /\ "sms-sent" \in Range(reports[r]) => reqResult[r] = "success"
        /\ "sms-failed" \in Range(reports[r]) => reqResult[r] \in {"failure", "threw"}
        /\ reqPc[r] # "done" => reports[r] = <<>>

\* C9 witness: one request was reported sent after a successful local send
\* and another was reported failed after a failed one.
C9_Witness ==
    \E r, q \in Requests :
        /\ reqPc[r] = "done" /\ reqResult[r] = "success" /\ reports[r] = <<"sms-sent">>
        /\ reqPc[q] = "done" /\ reqResult[q] = "failure" /\ reports[q] = <<"sms-failed">>

\* C10: the terminal outcome of every processed send-sms request eventually
\* reaches the server, also when the socket is not open when the local send
\* finishes.
C10_ReportEventuallyDelivered ==
    \A r \in Requests : (reqPc[r] = "done") ~> (delivered[r] # <<>>)

\* C11: after a connection was lost the service eventually is connected
\* again (the server accepts connections again and again), every rejected
\* reconnect attempt leaves a reconnect scheduled, and at most one reconnect
\* timer is pending at any time.
C11_Reconnects ==
    /\ [](reconnectTimers <= 1 /\ (reconnectTimeout <=> reconnectTimers = 1))
    /\ [][\A s \in Sockets :
            (connectPromise[s] = "reconnect" /\ connectPromise'[s] = "none"
             /\ sock'[s] # "open") => reconnectTimeout']_vars
    /\ [][\A s \in Sockets :
            (sock[s] = "open" /\ sock'[s] = "dead") => reconnectTimeout']_vars
    /\ (nsConfigured /\ ~isConnected) ~> isConnected

\* C11 witness: an established connection was closed and the service is
\* connected again through a socket opened by attemptReconnect.
C11_Witness ==
    \E s, t \in Sockets :
        /\ sock[s] = "dead" /\ sock[t] = "open" /\ nsSocket = t
        /\ handlers /\ isConnected
        /\ reconnectTimers = 0


(***************************************************************************)
(* Claims about SMSService.sendSMS                                         *)
(***************************************************************************)

Blank(message) == \A i \in 1..Len(message) : message[i] = " "

\* The number as the validation pattern reads it: digits only, 4 to 15 of
\* them, or + and 5 to 17 digits, once every other character is dropped.
ValidNumber(phoneNumber) ==
    LET kept == SelectSeq(phoneNumber, LAMBDA c : c \in DigitChars \cup {"+"})
        plus == kept # <<>> /\ kept[1] = "+"
        rest == IF plus THEN Tail(kept) ELSE kept
    IN  /\ AllDigits(rest)
        /\ Len(rest) \in (IF plus THEN 5..17 ELSE 4..15)

\* C12: SMSService.sendSMS never rejects; every failure is returned as
\* success = false with an error reason; with an invalid phone number or a
\* blank message the native send is never invoked; a call on a platform
\* without the native module fails without a native send.
C12_SendSMSNeverRejects ==
    /\ svcPc \in {"idle", "native", "returned"}
    /\ svcPc = "returned" => svcResult # NoResult
    /\ (svcPc = "returned" /\ ~svcResult.success) => svcResult.error \notin {"", "none"}
    /\ (svcPc # "idle" /\ (~ValidNumber(svcPhone) \/ Blank(svcMessage)
                            \/ svcPlatform # "android"))
          => (svcNativeArgs = <<>> /\ svcPc = "returned" /\ ~svcResult.success)
    /\ Len(svcNativeArgs) <= 1

\* C12 witness: a call with a valid number and a blank message returned a
\* failure without a native send.
C12_Witness ==
    /\ svcPc = "returned" /\ svcPlatform = "android"
    /\ ValidNumber(svcPhone) /\ svcMessage = <<" ">>
    /\ ~svcResult.success /\ svcResult.error = "Message cannot be empty"
    /\ svcNativeArgs = <<>>

(***************************************************************************)
(* Claims about device registration                                        *)
(***************************************************************************)

\* C13: however often a phone registers, the registry holds exactly one
\* entry for it, and no entry is shared by two distinct phones.
C13_OneEntryPerDevice ==
    /\ \A d \in PhoneSet : Cardinality(registeredAs[d]) <= 1
    /\ \A i \in Identities : Cardinality(registry[i]) <= 1

(***************************************************************************)
(* Claims about the queue, the dispatcher and the campaign runner          *)
(***************************************************************************)

Holders(m) == {d \in DeviceSet : m \in holding[d]}

Positions(m) == {i \in 1..Len(cqueue[CampaignOf(m)]) : cqueue[CampaignOf(m)][i] = m}

\* C14: attempt_count never exceeds max_retries; a failure increments it by
\* exactly one and the message is requeued only while the count is below
\* max_retries; with an incremented count a message becomes
\* permanently_failed only at max_retries.
C14_AttemptsBounded ==
    /\ [](\A m \in DOMAIN msgs :
            /\ msgs[m].attempt_count <= MaxRetries
            /\ msgs[m].state = "failed" => msgs[m].attempt_count < MaxRetries)
    /\ [][\A m \in DOMAIN msgs :
            /\ msgs'[m].attempt_count \in {msgs[m].attempt_count, msgs[m].attempt_count + 1}
            /\ msgs'[m].attempt_count # msgs[m].attempt_count =>
                  /\ msgs[m].state = "sending"
                  /\ msgs'[m].state \in {"failed", "permanently_failed"}
                  /\ msgs'[m].state = "permanently_failed"
                        <=> msgs'[m].attempt_count = MaxRetries
            /\ (msgs[m].state = "sending" /\ msgs'[m].state = "failed") =>
                  msgs'[m].attempt_count = msgs[m].attempt_count + 1]_vars

\* C14 witness: a message failed permanently at max_retries attempts after
\* having been requeued and sent again.
C14_Witness ==
    \E m \in DOMAIN msgs :
        msgs[m].state = "permanently_failed" /\ msgs[m].attempt_count = MaxRetries

\* C15: every message is held by at most one device, and it is assigned or
\* sending exactly when a device holds it; a queued message is in its
\* campaign's queue exactly once and no other message is.
C15_OneDevicePerMessage ==
    \A m \in DOMAIN msgs :
        /\ Cardinality(Holders(m)) <= 1
        /\ msgs[m].state \in {"assigned", "sending"} <=> Holders(m) # {}
        /\ Cardinality(Positions(m)) = (IF msgs[m].state = "queued" THEN 1 ELSE 0)

\* C15 witness: after a device was lost and a campaign cancelled, a message
\* that already failed once is held by the other device.
C15_Witness ==
    /\ devHealth[1] = "offline"
    /\ \E c \in Campaigns : campState[c] = "cancelled"
    /\ \E m \in DOMAIN msgs : m \in holding[2] /\ msgs[m].attempt_count >= 1

\* C16: when the heartbeat of a device times out while a message it holds is
\* sending, the message returns to queued with attempt_count unchanged and
\* no device; it is not marked failed.
C16_RequeueOnDeviceLoss ==
    [][\A d \in DeviceSet, m \in DOMAIN msgs :
          (devHealth[d] = "online" /\ devHealth'[d] = "offline"
           /\ m \in holding[d] /\ msgs[m].state = "sending")
          => /\ msgs'[m].state = "queued"
             /\ msgs'[m].attempt_count = msgs[m].attempt_count
             /\ \A e \in DeviceSet : m \notin holding'[e]
             /\ \E i \in 1..Len(cqueue'[CampaignOf(m)]) : cqueue'[CampaignOf(m)][i] = m]_vars

\* C16 witness: a device is offline and the first message of a campaign,
\* never failed, is queued again behind the second one, held by no device.
C16_Witness ==
    \E d \in DeviceSet, c \in Campaigns :
        /\ devHealth[d] = "offline" /\ InFlight(d) = 0
        /\ cqueue[c] = <<Msg(c, 2), Msg(c, 1)>>
        /\ msgs[Msg(c, 1)].state = "queued" /\ msgs[Msg(c, 1)].attempt_count = 0
        /\ Holders(Msg(c, 1)) = {}

InFlightState(m) == msgs[m].state \in {"assigned", "sending"}

Completed(c) ==
    Cardinality({m \in DOMAIN msgs : CampaignOf(m) = c /\ msgs[m].state \in TerminalStates})

\* A draw in the step: the campaign it was made from.
DrewFrom(c) == \E m \in DOMAIN msgs :
    CampaignOf(m) = c /\ msgs[m].state = "queued" /\ msgs'[m].state = "assigned"

\* Every draw takes the oldest message of its campaign's queue, from the
\* first campaign with queued messages after the pointer.
FifoRoundRobin ==
    [][\A c \in Campaigns : DrewFrom(c) =>
          /\ msgs'[Head(cqueue[c])].state = "assigned"
          /\ cqueue'[c] = Tail(cqueue[c])
          /\ \A b \in Campaigns :
                (cqueue[b] # <<>> /\ b # c) =>
                    ((b - rrPointer - 1) % NumCampaigns) > ((c - rrPointer - 1) % NumCampaigns)
          /\ rrPointer' = c]_vars

AllEmittedAndTerminal(c) ==
    /\ emitted[c] = recipients[c]
    /\ \A k \in 1..recipients[c] :
          Msg(c, k) \in DOMAIN msgs /\ msgs[Msg(c, k)].state \in TerminalStates

NonBlank(text) == \E i \in 1..Len(text) : text[i] # " "

\* C20: every campaign submitted has a non-blank name, a non-blank message,
\* at least one contact and a start time, and carries the state scheduled;
\* a createCampaign call on a form that lacks one of these sends no request
\* and changes nothing of the form, only the error shown.
C20_SubmitsOnlyValid ==
    /\ [](cbSent > 0 =>
            /\ NonBlank(cbRequest.name)
            /\ NonBlank(cbRequest.message)
            /\ cbRequest.recipients >= 1
            /\ cbRequest.startTime # ""
            /\ cbRequest.status = "scheduled")
    /\ [][(cbCalls' # cbCalls
           /\ ~(NonBlank(campaign.name) /\ NonBlank(campaign.message)
                /\ campaign.contacts >= 1 /\ campaign.startTime # ""))
          => /\ cbRequest' = cbRequest
             /\ cbSent' = cbSent
             /\ isLoading' = isLoading
             /\ campaign' = campaign
             /\ cbError' # ""]_vars
    /\ [][cbSent' # cbSent => cbCalls' # cbCalls /\ cbSent' = cbSent + 1]_vars

\* C20 witness: one valid campaign was submitted, and a later call on a form
\* without contacts was refused with the error shown.
C20_Witness ==
    /\ cbSent = 1 /\ ~isLoading
    /\ campaign.contacts = 0 /\ NonBlank(campaign.name) /\ NonBlank(campaign.message)
    /\ cbError = "At least one contact is required"

(***************************************************************************)
(* Claims about the device dashboard                                       *)
(***************************************************************************)

\* C21: whenever a test-SMS request is sent, the device it is sent for is in
\* the dashboard's device list with status online at that moment.
C21_TestOnlyOnlineDevice ==
    [][tsSent' # tsSent => dashDevices[tsTarget'] = "online"]_vars

(***************************************************************************)
(* Claims about NetworkService.disconnect and the heartbeat                *)
(***************************************************************************)

\* C22: from a call of disconnect() until the next call of connect(), the
\* service is not connected and no reconnect is scheduled (so none is
\* attempted), and therefore no heartbeat is sent.
C22_StaysDisconnected ==
    nsDisconnected => ~isConnected /\ ~reconnectTimeout /\ reconnectTimers = 0

\* C30: at most one heartbeat interval is live at any time (the one the
\* service references, and none besides it), and one is live only while a
\* socket of the service is open (or its close event is still to be
\* delivered).
C30_OneHeartbeatTimer ==
    /\ ~hbLeaked
    /\ heartbeatInterval => \E s \in Sockets : sock[s] \in {"open", "closing"}

(***************************************************************************)
(* Claims about the polling bridge's reports                               *)
(***************************************************************************)

\* C23: a sendSMS of the polling bridge whose native send has succeeded (it
\* is reporting the success) never goes on to mark the message failed and to
\* report it to the server as failed.
C23_ReportMatchesOutcome ==
    [][\A a \in AppSenders :
          appPc[a] = "reportSent" =>
              /\ appPc'[a] # "reportFailed"
              /\ \A i \in 1..Len(appQueue) :
                    (appQueue[i].id = appMsg[a] /\ appQueue[i].status = "pending")
                        => appQueue'[i].status # "failed"]_vars

(***************************************************************************)
(* Claims about concurrent operations on WebUSBSMS                         *)
(***************************************************************************)

\* The sendSMS call has written its first command and not yet its body.
MidSequence(c) == sendPc[c] \in {"out", "in"} /\ sendStep[c] < Len(SendCommands)

\* C24: while a sendSMS call is between its first command and its body with
\* the terminator, no other sendSMS call and no getStatus call writes a
\* command to the device.
C24_NoInterleavedCommands ==
    [][\A c \in Senders :
          MidSequence(c) =>
              /\ \A d \in Senders \ {c} :
                    written'[d] = written[d] \/ written'[d] = <<>>
              /\ statStep' = statStep \/ statStep' = 0]_vars

\* C25: whenever at least one sendSMS is in flight the status is busy.
C25_BusyWhileInFlight == messageQueue > 0 => status = "busy"

\* C26: status online or busy implies that a device handle is held; when
\* disconnect() returns the status is offline and no handle is held; and the
\* status then stays offline until connectDevice is called.
C26_OfflineAfterDisconnect ==
    /\ [](status \in {"online", "busy"} => device)
    /\ [][(discPc # "idle" /\ discPc' = "idle") => (status' = "offline" /\ ~device')]_vars
    /\ [][(status = "offline" /\ ~device /\ connPc' = connPc
           /\ connPc \in {"idle", "true"}) => status' = "offline"]_vars

\* sendSMS calls that have passed the connected check and not yet returned
InProgress == {c \in Senders : sendPc[c] \in {"out", "in"}}

\* C27: messageQueue is never negative and equals the number of sendSMS calls
\* in progress: a call that passes the connected check adds one, its success
\* or failure takes one away, and a call rejected for a missing device
\* leaves it unchanged.
C27_QueueCountsSends ==
    /\ [](messageQueue >= 0 /\ messageQueue = Cardinality(InProgress))
    /\ [][/\ \A c \in Senders :
               /\ (c \notin InProgress /\ c \in InProgress')
                      => messageQueue' = messageQueue + 1
               /\ (c \in InProgress /\ c \notin InProgress')
                      => messageQueue' = messageQueue - 1
          /\ InProgress' = InProgress => messageQueue' = messageQueue]_vars

\* C27 witness: one call has failed, another is still in progress, and the
\* counter is 1.
C27_Witness ==
    \E c, d \in Senders :
        /\ sendPc[c] = "failed" /\ sendPc[d] \in {"out", "in"}
        /\ messageQueue = 1

(***************************************************************************)
(* Claims about DeviceStatusService                                        *)
(***************************************************************************)

\* C28: the first getDeviceStatus call that starts after a clearCache returns
\* a status from a device query that began after the clear.
C28_FreshAfterClear ==
    \A c \in StatusCalls :
        (dsPc[c] = "returned" /\ dsMark[c] >= 0) => dsResult[c] > dsMark[c]

\* C29: a getDeviceStatus call returns the cached status without a device
\* query exactly when a status is cached and less than updateInterval has
\* passed since the time stored with it; otherwise it queries the device, and
\* when the query resolves its result is cached with the call's time and
\* returned.
C29_CacheUsedWhenRecent ==
    /\ [][\A c \in StatusCalls :
            (dsPc[c] = "idle" /\ dsPc'[c] # "idle") =>
                IF cachedStatus # 0 /\ dsNow - lastUpdate < updateInterval
                THEN /\ dsPc'[c] = "returned" /\ dsResult'[c] = cachedStatus
                     /\ dsQueries' = dsQueries
                ELSE /\ dsPc'[c] = "querying" /\ dsQueries' = dsQueries + 1
                     /\ dsQuery'[c] = dsQueries']_vars
    /\ [][\A c \in StatusCalls :
            (dsPc[c] = "querying" /\ dsPc'[c] # "querying") =>
                /\ dsPc'[c] = "returned" /\ dsResult'[c] = dsQuery[c]
                /\ cachedStatus' = dsQuery[c] /\ lastUpdate' = dsStart[c]]_vars

\* C29 witness: a status cached one tick ago was returned without a query,
\* after an earlier call had queried the device.
C29_Witness ==
    \E c \in StatusCalls :
        /\ dsPc[c] = "returned" /\ dsQuery[c] = 0 /\ dsResult[c] = cachedStatus
        /\ dsStart[c] - lastUpdate = DssTickMs
        /\ updateInterval = DefaultUpdateInterval
        /\ dsQueries = 1

(***************************************************************************)
(* Polling bridge: polling timers and the connection retry                 *)
(***************************************************************************)

\* Live polling intervals, whatever their closure.
LivePollIntervals == pollIntervals[TRUE] + pollIntervals[FALSE]

\* At most one polling interval is live.
C31_AtMostOneInterval == LivePollIntervals <= 1

\* No poll tick fetches messages while the bridge is not connected.
C31_NoFetchWhenDisconnected == [][pollFetches' # pollFetches => appConnected]_vars

\* C31: at most one message-polling timer is active at any time, after any
\* sequence of successful and failed connectToServer calls, and polling stops
\* once the bridge is no longer connected.
C31_OnePollingTimer == []C31_AtMostOneInterval /\ C31_NoFetchWhenDisconnected

\* A register request failed: it left the calls in flight and started no
\* polling interval.
RegisterFailed(b) ==
    /\ connectCalls'[b] < connectCalls[b]
    /\ pollIntervals' = pollIntervals

\* C32: when registering fails the bridge is marked disconnected and
\* connectToServer is retried by a timer, after every failure, so that with a
\* server that eventually answers OK the bridge becomes connected.
C32_RetriesUntilConnected ==
    /\ [][\A b \in BOOLEAN :
            RegisterFailed(b) =>
                /\ ~appConnected'
                /\ retryTimers'[b] = retryTimers[b] + 1]_vars
    /\ [][\A b \in BOOLEAN :
            retryTimers'[b] < retryTimers[b] => connectCalls'[b] = connectCalls[b] + 1]_vars
    /\ ((\E b \in BOOLEAN : retryTimers[b] > 0) ~> appConnected)

\* The bridge is connected after a retry timer has fired.
C32_Witness == linkRetried /\ appConnected

(***************************************************************************)
(* WebUSBSMS: sends after a failed connectDevice                           *)
(***************************************************************************)

\* Positions of a sendSMS call that is not in progress.
SendAtRest == {"idle", "sent", "failed", "rejected"}

\* While the last connectDevice has returned false, a sendSMS that is called
\* is rejected with 'No USB device connected' and writes no command.
C33_NoSendAfterFailedConnect ==
    [][connPc = "false" /\ connPc' = "false" =>
          \A c \in Senders :
              sendPc[c] \in SendAtRest /\ sendPc'[c] # sendPc[c] =>
                  sendPc'[c] = "rejected" /\ written'[c] = <<>>]_vars

\* connectDevice returns true with the status online and false with the
\* status error.
C33_ResultMatchesStatus ==
    [][/\ (connPc # "true" /\ connPc' = "true" => status' = "online")
       /\ (connPc # "false" /\ connPc' = "false" => status' = "error")]_vars

\* C33: after connectDevice() has returned false every sendSMS fails with
\* 'No USB device connected' without writing any command, until a later
\* connectDevice returns true; and connectDevice returns true exactly when
\* the status it leaves is online, false exactly when it is error.
C33_FailedConnectAcceptsNoSend == C33_NoSendAfterFailedConnect /\ C33_ResultMatchesStatus

(***************************************************************************)
(* SMSService.sendLongSMS: what is handed to the native send               *)
(***************************************************************************)

\* Every string handed to the native send is at most one segment long.
C34_HandedWithinSegment ==
    \A k \in 1..Len(lsHanded) : Len(lsHanded[k].text) <= SegmentSize

\* The parts are handed over in part order, one at a time: each after the
\* results of all parts before it, and at most one without its result.
C34_PartsInOrder ==
    /\ \A k \in 1..Len(lsHanded) : \A j \in 1..(k - 1) : lsHanded[j].part < lsHanded[k].part
    /\ \A k \in 1..Len(lsHanded) : Len(lsResults) >= lsHanded[k].part
    /\ lsPc = "native" <=>
          (lsHanded # <<>> /\ lsHanded[Len(lsHanded)].part = Len(lsResults))

\* The results are those of parts 0, 1, ... in order, and the returned list
\* has one result per part.
C34_OneResultPerPart ==
    /\ \A k \in 1..Len(lsResults) : lsResults[k].part = k - 1
    /\ lsPc = "done" => Len(lsResults) = Len(lsParts)

\* C34: every string that sendLongSMS hands to the native send is at most
\* one segment (160 characters) long, the parts are sent strictly in order
\* one at a time, and the returned list has one result per part in part
\* order.
C34_LongSmsWithinSegments ==
    C34_HandedWithinSegment /\ C34_PartsInOrder /\ C34_OneResultPerPart

(***************************************************************************)
(* DeviceDashboard: frame of the list events                               *)
(***************************************************************************)

\* Positions of the entries of a list whose id is the given one.
EntriesWithId(list, id) == {i \in 1..Len(list) : list[i]["id"] = id}

\* The entry is the old one with the received fields merged into it: every
\* received field has the received value, every other field is kept.
MergedInto(new, old, received) ==
    /\ DOMAIN new = DOMAIN old \cup DOMAIN received
    /\ \A f \in DOMAIN received : new[f] = received[f]
    /\ \A f \in DOMAIN old \ DOMAIN received : new[f] = old[f]

\* The list is the old one without the entries at the given positions, the
\* others in their order.
WithoutEntries(new, old, gone) ==
    /\ Len(new) = Len(old) - Cardinality(gone)
    /\ \A i \in (1..Len(old)) \ gone :
          new[i - Cardinality({j \in gone : j < i})] = old[i]

\* C35: a deviceStatusUpdate event changes only the entries whose id matches,
\* merging the received fields into them, and leaves the other entries, the
\* order and the length unchanged; for an id not in the list it changes
\* nothing; a deviceRemoved event removes exactly the entries with that id.
C35_ListEventFrame ==
    /\ dlEvent.type = "deviceStatusUpdate" =>
          /\ Len(deviceList) = Len(dlBefore)
          /\ \A i \in 1..Len(dlBefore) :
                IF i \in EntriesWithId(dlBefore, dlEvent.device["id"])
                THEN MergedInto(deviceList[i], dlBefore[i], dlEvent.device)
                ELSE deviceList[i] = dlBefore[i]
          /\ EntriesWithId(dlBefore, dlEvent.device["id"]) = {} => deviceList = dlBefore
    /\ dlEvent.type = "deviceRemoved" =>
          WithoutEntries(deviceList, dlBefore, EntriesWithId(dlBefore, dlEvent.deviceId))

\* An update carrying only a battery level has been merged into one of two
\* listed devices.
C35_Witness ==
    /\ dlEvent.type = "deviceStatusUpdate"
    /\ DOMAIN dlEvent.device = {"id", "battery"}
    /\ Len(dlBefore) = 2
    /\ Cardinality(EntriesWithId(dlBefore, dlEvent.device["id"])) = 1
    /\ deviceList # dlBefore

(***************************************************************************)
(* Bridge app: the activity log is bounded and newest first                *)
(***************************************************************************)

\* The log holds at most 50 entries, each newer than the one after it.
C36_BoundedNewestFirst ==
    /\ Len(logs) <= KeptLogs + 1
    /\ \A i \in 1..(Len(logs) - 1) : logs[i] > logs[i + 1]

\* C36: the activity log never holds more than 50 entries and is ordered
\* newest first; addLog puts the new entry at the front and drops the oldest
\* one when 50 are present; after any sequence of addLog and clearLogs.
C36_LogBounded ==
    /\ []C36_BoundedNewestFirst
    /\ [][logCalls' # logCalls =>
            /\ logs'[1] = logCalls'
            /\ IF Len(logs) = KeptLogs + 1
               THEN /\ Len(logs') = KeptLogs + 1
                    /\ \A i \in 1..KeptLogs : logs'[i + 1] = logs[i]
               ELSE Tail(logs') = logs]_vars

\* addLog was called on a full log and has dropped its oldest entry.
C36_Witness ==
    /\ logDropped
    /\ Len(logs) = KeptLogs + 1
    /\ logs[1] = logCalls

====
